---------------------------- MODULE Spec2Model ----------------------------
(***************************************************************************)
(* A model of the call-center analytics pipeline of callcenter-analytics:  *)
(* the cleaner (src/data/cleaner.py), the KPI analyzer                     *)
(* (src/analysis/kpi.py), the correlation analyzer                         *)
(* (src/analysis/correlation.py), the sufficiency gate                     *)
(* (src/data/validator.py) and the two orchestrators (app/cli.py,          *)
(* app/main.py).                                                           *)
(*                                                                         *)
(* Numbers are exact rationals n/d (d > 0, lowest terms).  A float is a    *)
(* rational, nan, or +/-inf, with IEEE semantics for division by zero and  *)
(* for comparisons with nan.  A square root is never taken: a standard     *)
(* deviation is carried as its square (the variance) and a Pearson         *)
(* coefficient as its sign and its square, which decide every comparison   *)
(* the code makes with them.                                               *)
(*                                                                         *)
(* A column name is a sequence of one-character strings, so that           *)
(* str.lower, str.replace and the `in` substring test are computed.        *)
(***************************************************************************)
EXTENDS Integers, Sequences, FiniteSets, TLC

VARIABLES
    df,         \* the table (DataFrame) the caller holds
    cfg,        \* the configuration dict the components were built with
    op,         \* the last public method called ("none" before any call)
    arg,        \* its arguments
    ret,        \* what it returned (or the exception it raised)
    pc,         \* the position inside clean_data
    df_clean,   \* clean_data's local df_clean
    stages      \* the stages clean_data has run, in order

vars == <<df, cfg, op, arg, ret, pc, df_clean, stages>>

(***************************************************************************)
(* Bounds of the model.                                                    *)
(***************************************************************************)
MaxRows == 4

(***************************************************************************)
(* Arithmetic.                                                             *)
(***************************************************************************)
Abs(x) == IF x < 0 THEN -x ELSE x

Sign(x) == IF x < 0 THEN -1 ELSE IF x > 0 THEN 1 ELSE 0

RECURSIVE GCD(_, _)
GCD(a, b) == IF b = 0 THEN a ELSE GCD(b, a % b)

\* The cells of a table and the floats computed from them share one shape.
Num(n, d) ==
    LET g == GCD(Abs(n), Abs(d))
        s == IF d < 0 THEN -1 ELSE 1
    IN  [t |-> "num", n |-> (s * n) \div g, d |-> (s * d) \div g, s |-> ""]

Int2F(n) == [t |-> "num", n |-> n, d |-> 1, s |-> ""]

NaN == [t |-> "nan", n |-> 0, d |-> 1, s |-> ""]

Inf(sign) == [t |-> "inf", n |-> sign, d |-> 1, s |-> ""]

Str(s) == [t |-> "str", n |-> 0, d |-> 1, s |-> s]

\* The place of a value whose computation raised ZeroDivisionError.
DivError == [t |-> "err", n |-> 0, d |-> 1, s |-> "ZeroDivisionError"]

IsNum(x) == x.t = "num"

isnull(x) == x.t = "nan"

FAdd(a, b) ==
    IF IsNum(a) /\ IsNum(b) THEN Num(a.n * b.d + b.n * a.d, a.d * b.d) ELSE NaN

FSub(a, b) ==
    IF IsNum(a) /\ IsNum(b) THEN Num(a.n * b.d - b.n * a.d, a.d * b.d) ELSE NaN

FMul(a, b) ==
    IF IsNum(a) /\ IsNum(b) THEN Num(a.n * b.n, a.d * b.d) ELSE NaN

\* numpy float division: x/0 is +/-inf, 0/0 is nan, nothing is raised.
FDiv(a, b) ==
    IF ~(IsNum(a) /\ IsNum(b)) THEN NaN
    ELSE IF b.n = 0 THEN (IF a.n = 0 THEN NaN ELSE Inf(Sign(a.n)))
    ELSE Num(a.n * b.d, a.d * b.n)

\* a > b on floats: False whenever either side is nan.
FGt(a, b) ==
    CASE a.t = "nan" \/ b.t = "nan" -> FALSE
      [] a.t = "inf" /\ b.t = "inf" -> a.n > b.n
      [] a.t = "inf" -> a.n > 0
      [] b.t = "inf" -> b.n < 0
      [] OTHER -> a.n * b.d > b.n * a.d

FGe(a, b) ==
    CASE a.t = "nan" \/ b.t = "nan" -> FALSE
      [] a.t = "inf" /\ b.t = "inf" -> a.n >= b.n
      [] a.t = "inf" -> a.n > 0
      [] b.t = "inf" -> b.n < 0
      [] OTHER -> a.n * b.d >= b.n * a.d

(***************************************************************************)
(* Sequences.                                                              *)
(***************************************************************************)
Range(s) == {s[i] : i \in DOMAIN s}

\* df[mask]: the elements of s whose mask entry is True, in order.
RECURSIVE Compress(_, _)
Compress(s, mask) ==
    IF s = <<>> THEN <<>>
    ELSE (IF Head(mask) THEN <<Head(s)>> ELSE <<>>) \o Compress(Tail(s), Tail(mask))

RECURSIVE FSum(_)
FSum(s) == IF s = <<>> THEN Int2F(0) ELSE FAdd(Head(s), FSum(Tail(s)))

RECURSIVE Insert(_, _)
Insert(x, s) ==
    IF s = <<>> THEN <<x>>
    ELSE IF FGt(Head(s), x) THEN <<x>> \o s
    ELSE <<Head(s)>> \o Insert(x, Tail(s))

RECURSIVE Sorted(_)
Sorted(s) == IF s = <<>> THEN <<>> ELSE Insert(Head(s), Sorted(Tail(s)))

\* The positions of an optional list argument: None, or a list.
None == [some |-> FALSE, v |-> <<>>]

Some(v) == [some |-> TRUE, v |-> v]

(***************************************************************************)
(* Tables.  A DataFrame is its column names, the dtype of each column      *)
(* ("int64", "float64" or "object") and its rows, each a sequence of cells *)
(* aligned with the columns.  An int64 column holds no nan.                *)
(***************************************************************************)
NRows(t) == Len(t.rows)

NCols(t) == Len(t.columns)

Column(t, j) == [i \in 1..NRows(t) |-> t.rows[i][j]]

\* The positions of the columns called name.
Positions(t, name) == {j \in 1..NCols(t) : t.columns[j] = name}

HasColumn(t, name) == Positions(t, name) # {}

Pos(t, name) == CHOOSE j \in Positions(t, name) : TRUE

\* select_dtypes(include=[np.number]).columns, in column order
\* pd.api.types.is_numeric_dtype
is_numeric_dtype(dtype) == dtype \in {"int64", "float64"}

NumericPositions(t) == {j \in 1..NCols(t) : is_numeric_dtype(t.dtypes[j])}

\* select_dtypes(include=['object']).columns
ObjectPositions(t) == {j \in 1..NCols(t) : t.dtypes[j] = "object"}

RECURSIVE NamesAt(_, _, _)
NamesAt(t, js, j) ==
    IF j > NCols(t) THEN <<>>
    ELSE (IF j \in js THEN <<t.columns[j]>> ELSE <<>>) \o NamesAt(t, js, j + 1)

\* The non-missing values of a column (pandas statistics skip nan).
Valid(col) == SelectSeq(col, LAMBDA x : ~isnull(x))

\* Series.mean(): nan for a column without values.
Mean(col) ==
    LET v == Valid(col)
    IN IF v = <<>> THEN NaN ELSE FDiv(FSum(v), Int2F(Len(v)))

\* Series.median(): the middle of the sorted values, or the mean of the two.
Median(col) ==
    LET v == Sorted(Valid(col))
        n == Len(v)
    IN  IF n = 0 THEN NaN
        ELSE IF n % 2 = 1 THEN v[(n + 1) \div 2]
        ELSE FDiv(FAdd(v[n \div 2], v[n \div 2 + 1]), Int2F(2))

\* The square of Series.std() (ddof = 1): nan for fewer than two values.
Variance(col) ==
    LET v == Valid(col)
        m == Mean(col)
        sq == [i \in 1..Len(v) |-> FMul(FSub(v[i], m), FSub(v[i], m))]
    IN  IF Len(v) < 2 THEN NaN ELSE FDiv(FSum(sq), Int2F(Len(v) - 1))

(***************************************************************************)
(* DataCleaner (src/data/cleaner.py).                                      *)
(***************************************************************************)
\* str.lower() on the letters the model's names use.
Lower(c) ==
    CASE c = "A" -> "a"
      [] c = "B" -> "b"
      [] c = "C" -> "c"
      [] c = "X" -> "x"
      [] c = "Y" -> "y"
      [] OTHER -> c

ReplaceChar(c, old, new) == IF c = old THEN new ELSE c

\* name.lower().replace(' ', '_').replace('-', '_')
StandardName(name) ==
    [i \in 1..Len(name) |->
        ReplaceChar(ReplaceChar(Lower(name[i]), " ", "_"), "-", "_")]

standardize_column_names(t) ==
    [t EXCEPT !.columns = [j \in 1..NCols(t) |-> StandardName(t.columns[j])]]

\* The part of a row that drop_duplicates compares.
RowKey(row, js) == [j \in js |-> row[j]]

\* A slip: the rows are compared on the first column only.
remove_duplicates_first_column(t, subset) ==
    LET keep == [i \in 1..NRows(t) |->
                    \A h \in 1..(i - 1) : t.rows[h][1] # t.rows[i][1]]
    IN  [t EXCEPT !.rows = Compress(t.rows, keep)]

\* A slip: keep='last'.
remove_duplicates_keep_last(t, subset) ==
    LET js == IF subset.some
              THEN {j \in 1..NCols(t) : t.columns[j] \in Range(subset.v)}
              ELSE 1..NCols(t)
        keep == [i \in 1..NRows(t) |->
                    \A h \in (i + 1)..NRows(t) :
                        RowKey(t.rows[h], js) # RowKey(t.rows[i], js)]
    IN  [t EXCEPT !.rows = Compress(t.rows, keep)]

\* df.drop_duplicates(subset=subset): keep='first'.
remove_duplicates(t, subset) ==
    LET js == IF subset.some
              THEN {j \in 1..NCols(t) : t.columns[j] \in Range(subset.v)}
              ELSE 1..NCols(t)
        keep == [i \in 1..NRows(t) |->
                    \A h \in 1..(i - 1) : RowKey(t.rows[h], js) # RowKey(t.rows[i], js)]
    IN  [t EXCEPT !.rows = Compress(t.rows, keep)]

\* isnull().sum().sum()
MissingCount(t) ==
    Cardinality({<<i, j>> \in (1..NRows(t)) \X (1..NCols(t)) : isnull(t.rows[i][j])})

\* A slip: every column is filled with the value of the first of them.
FillColumns_first(t, js, value) ==
    [t EXCEPT !.rows =
        [i \in 1..NRows(t) |->
            [j \in 1..NCols(t) |->
                IF j \in js /\ isnull(t.rows[i][j])
                THEN value[CHOOSE h \in js : \A g \in js : h <= g]
                ELSE t.rows[i][j]]]]

\* frame[cols] = frame[cols].fillna(value): value[j] replaces the nan cells of
\* column j; a nan value replaces nothing.
FillColumns(t, js, value) ==
    [t EXCEPT !.rows =
        [i \in 1..NRows(t) |->
            [j \in 1..NCols(t) |->
                IF j \in js /\ isnull(t.rows[i][j]) /\ ~isnull(value[j])
                THEN value[j] ELSE t.rows[i][j]]]]

\* A slip: the first non-missing value of the column is propagated.
RECURSIVE LastValid_first(_, _, _)
LastValid_first(t, i, j) ==
    IF i = 0 THEN NaN
    ELSE IF ~isnull(LastValid_first(t, i - 1, j)) THEN LastValid_first(t, i - 1, j)
    ELSE t.rows[i][j]

\* fillna(method='ffill'): the last non-missing value above, if any.
RECURSIVE LastValid(_, _, _)
LastValid(t, i, j) ==
    IF i = 0 THEN NaN
    ELSE IF ~isnull(t.rows[i][j]) THEN t.rows[i][j]
    ELSE LastValid(t, i - 1, j)

\* A slip: 'auto' fills the numeric columns with their mean.
handle_missing_values_auto_mean(t, strategy) ==
    IF MissingCount(t) = 0 \/ strategy # "auto" THEN t
    ELSE FillColumns(FillColumns(t, NumericPositions(t),
                                 [j \in 1..NCols(t) |-> Mean(Column(t, j))]),
                     ObjectPositions(t), [j \in 1..NCols(t) |-> Str("Unknown")])

handle_missing_values(t, strategy) ==
    IF MissingCount(t) = 0 THEN t
    ELSE CASE strategy = "drop" ->
                [t EXCEPT !.rows =
                    Compress(t.rows, [i \in 1..NRows(t) |->
                        \A j \in 1..NCols(t) : ~isnull(t.rows[i][j])])]
           [] strategy = "mean" ->
                FillColumns(t, NumericPositions(t),
                            [j \in 1..NCols(t) |-> Mean(Column(t, j))])
           [] strategy = "median" ->
                FillColumns(t, NumericPositions(t),
                            [j \in 1..NCols(t) |-> Median(Column(t, j))])
           [] strategy = "forward_fill" ->
                [t EXCEPT !.rows =
                    [i \in 1..NRows(t) |->
                        [j \in 1..NCols(t) |-> LastValid(t, i, j)]]]
           [] strategy = "auto" ->
                LET filled == FillColumns(t, NumericPositions(t),
                                  [j \in 1..NCols(t) |-> Median(Column(t, j))])
                IN  FillColumns(filled, ObjectPositions(filled),
                                [j \in 1..NCols(t) |-> Str("Unknown")])
           [] OTHER -> t

\* The square of |x - mean| / std, as a float.
ZScoreSq(x, mean, variance) ==
    LET dev == FSub(x, mean)
    IN  FDiv(FMul(dev, dev), variance)

\* A slip: ~(z_scores <= outlier_std), which is True of nan.
ExceedsStd_not_le(zsq, k) ==
    IF k < 0 THEN zsq.t # "nan" ELSE ~FGe(Int2F(k * k), zsq)

\* z_scores > outlier_std, decided on the squares (both sides are >= 0).
ExceedsStd(zsq, k) ==
    IF k < 0 THEN zsq.t # "nan" ELSE FGt(zsq, Int2F(k * k))

\* The squares of the column's z-scores.
ZScoresSq(col) ==
    LET mean == Mean(col)
        variance == Variance(col)
    IN  [i \in 1..Len(col) |-> ZScoreSq(col[i], mean, variance)]

OutlierMask(col, k) ==
    LET z == ZScoresSq(col)
    IN  [i \in 1..Len(col) |-> ExceedsStd(z[i], k)]

\* The keys of the dict detect_outliers fills, in insertion order.
RECURSIVE OutlierKeys(_, _, _)
OutlierKeys(t, columns, seen) ==
    IF columns = <<>> THEN <<>>
    ELSE LET c == Head(columns)
             ok == /\ HasColumn(t, c)
                   /\ is_numeric_dtype(t.dtypes[Pos(t, c)])
                   /\ c \notin seen
         IN  (IF ok THEN <<c>> ELSE <<>>)
                 \o OutlierKeys(t, Tail(columns), seen \cup {c})

detect_outliers(t, columns, k) ==
    LET cols == IF columns.some THEN columns.v
                ELSE NamesAt(t, NumericPositions(t), 1)
        keys == OutlierKeys(t, cols, {})
    IN  [raised |-> \E c \in Range(keys) :
                        \E z \in Range(ZScoresSq(Column(t, Pos(t, c)))) : z.t = "err",
         keys |-> keys,
         mask |-> [c \in Range(keys) |-> OutlierMask(Column(t, Pos(t, c)), k)]]

\* A slip: mask = ~outlier_mask, so that only the last column counts.
RECURSIVE MaskLoop_overwrite(_, _, _)
MaskLoop_overwrite(mask, keys, outliers) ==
    IF keys = <<>> THEN mask
    ELSE MaskLoop_overwrite([i \in DOMAIN mask |-> ~outliers[Head(keys)][i]],
                            Tail(keys), outliers)

\* for col, outlier_mask in outliers.items(): mask &= ~outlier_mask
RECURSIVE MaskLoop(_, _, _)
MaskLoop(mask, keys, outliers) ==
    IF keys = <<>> THEN mask
    ELSE MaskLoop([i \in DOMAIN mask |-> mask[i] /\ ~outliers[Head(keys)][i]],
                  Tail(keys), outliers)

remove_outliers(t, columns, k) ==
    LET outliers == detect_outliers(t, columns, k)
        mask == MaskLoop([i \in 1..NRows(t) |-> TRUE], outliers.keys, outliers.mask)
    IN  [t EXCEPT !.rows = Compress(t.rows, mask)]

clean_data(t, remove_flag, k) ==
    LET a == standardize_column_names(t)
        b == remove_duplicates(a, None)
        c == handle_missing_values(b, "auto")
    IN  IF remove_flag THEN remove_outliers(c, None, k) ELSE c

(***************************************************************************)
(* src/data/loader.py: DataLoader.parse_dates, and src/data/validator.py:  *)
(* DataValidator.validate_sufficient_data.                                 *)
(***************************************************************************)
date_word == <<"d", "a", "t", "e">>

time_word == <<"t", "i", "m", "e">>

\* sub in s
Contains(s, sub) ==
    \E i \in 1..(Len(s) - Len(sub) + 1) : SubSeq(s, i, i + Len(sub) - 1) = sub

LowerName(name) == [i \in 1..Len(name) |-> Lower(name[i])]

\* The positions of the columns whose name has 'date' or 'time' in it.
detect_date_columns(t) ==
    {j \in 1..NCols(t) :
        Contains(LowerName(t.columns[j]), date_word)
            \/ Contains(LowerName(t.columns[j]), time_word)}

\* The missing value of a datetime column.
NaT == NaN

\* datetime.strptime(s, '%Y-%m-%d') on the texts the model's cells hold: the
\* day, counted from 2024-01-01, or None for a text that is not a date.
strptime(s) ==
    CASE s = "2024-01-01" -> Some(0)
      [] s = "2024-01-03" -> Some(2)
      [] OTHER -> None

\* The date (at midnight) of a day.
Timestamp(day) == [t |-> "date", n |-> day, d |-> 1, s |-> ""]

\* pd.to_datetime with errors='ignore': a cell that is not a date in the
\* format is left as it is.
to_datetime_ignore(cell) ==
    IF cell.t = "str" /\ strptime(cell.s).some THEN Timestamp(strptime(cell.s).v)
    ELSE cell

\* pd.to_datetime(cell, format='%Y-%m-%d', errors='coerce'): a text that is
\* a date in the format is parsed; a number, read as its digits, and any
\* other text are coerced to NaT, as a missing cell is.
to_datetime(cell) ==
    IF cell.t = "str" /\ strptime(cell.s).some THEN Timestamp(strptime(cell.s).v)
    ELSE IF cell.t \in {"num", "inf", "str", "nan"} THEN NaT
    ELSE cell

\* date_columns is None (auto-detect), or the list of the names to parse.
\* df_copy[col] of a name that two columns have is a table, which
\* pd.to_datetime does not assemble into dates: it raises ValueError, which
\* line 116 catches, and the columns stay as they were.
parse_dates(t, date_columns) ==
    LET listed == IF date_columns.some
                  THEN {j \in 1..NCols(t) : t.columns[j] \in Range(date_columns.v)}
                  ELSE detect_date_columns(t)
        js == {j \in listed : Cardinality(Positions(t, t.columns[j])) = 1}
    IN  [columns |-> t.columns,
         dtypes |-> [j \in 1..NCols(t) |-> IF j \in js THEN "datetime64" ELSE t.dtypes[j]],
         rows |-> [i \in 1..NRows(t) |->
                      [j \in 1..NCols(t) |->
                          IF j \in js THEN to_datetime(t.rows[i][j]) ELSE t.rows[i][j]]]]

\* A slip: a table of exactly the minimum is turned down.
validate_sufficient_data_le(t, min_data_points) ==
    LET row_count == NRows(t)
    IN  IF row_count <= min_data_points
        THEN <<FALSE, <<"Insufficient data: ", row_count, " rows (minimum: ",
                        min_data_points, ")">>>>
        ELSE <<TRUE, <<"Sufficient data: ", row_count, " rows">>>>

\* The pair (is_valid, message); the message is the pieces of its f-string.
validate_sufficient_data(t, min_data_points) ==
    LET row_count == NRows(t)
    IN  IF row_count < min_data_points
        THEN <<FALSE, <<"Insufficient data: ", row_count, " rows (minimum: ",
                        min_data_points, ")">>>>
        ELSE <<TRUE, <<"Sufficient data: ", row_count, " rows">>>>

\* validate_all without required columns; the quality report does not bear
\* on what is run and is left out.
validate_all(t, min_data_points) ==
    [sufficient_data |-> validate_sufficient_data(t, min_data_points)]

(***************************************************************************)
(* src/data/loader.py: DataLoader.load_csv and load_multiple_csv.  A file  *)
(* is what os.path.exists and pd.read_csv make of its path: absent,        *)
(* unreadable, or the table that read_csv returns.                         *)
(***************************************************************************)
Absent == [kind |-> "absent", table |-> <<>>]

Unreadable == [kind |-> "unreadable", table |-> <<>>]

File(t) == [kind |-> "table", table |-> t]

\* loader.py 31-39: FileNotFoundError for a path that does not exist, the
\* error of read_csv wrapped in Exception, else the table.
load_csv(files, file_path) ==
    IF files[file_path].kind = "absent"
    THEN [raised |-> TRUE, error |-> <<"FileNotFoundError", file_path>>, value |-> <<>>]
    ELSE IF files[file_path].kind = "unreadable"
    THEN [raised |-> TRUE, error |-> <<"Exception", file_path>>, value |-> <<>>]
    ELSE [raised |-> FALSE, error |-> <<>>, value |-> files[file_path].table]

\* loader.py 52-54: the loop over file_paths; loaded lists the paths given to
\* load_csv, dfs the tables appended.
RECURSIVE LoadLoop(_, _, _, _)
LoadLoop(files, file_paths, dfs, loaded) ==
    IF file_paths = <<>>
    THEN [raised |-> FALSE, error |-> <<>>, dfs |-> dfs, loaded |-> loaded]
    ELSE LET path == Head(file_paths)
             loaded_df == load_csv(files, path)
         IN  IF loaded_df.raised
             THEN [raised |-> TRUE, error |-> loaded_df.error, dfs |-> dfs,
                   loaded |-> Append(loaded, path)]
             ELSE LoadLoop(files, Tail(file_paths), Append(dfs, loaded_df.value),
                           Append(loaded, path))

\* pd.concat: the columns of the result are the union of the inputs' columns
\* in order of first appearance.
RECURSIVE UnionColumns(_, _)
UnionColumns(dfs, columns) ==
    IF dfs = <<>> THEN columns
    ELSE LET new == SelectSeq(Head(dfs).columns,
                              LAMBDA c : \A k \in 1..Len(columns) : columns[k] # c)
         IN  UnionColumns(Tail(dfs), columns \o new)

\* pd.concat: a row of an input takes the result's columns; a column the
\* input does not have is NaN.
Reindex(t, columns) ==
    [i \in 1..NRows(t) |->
        [j \in 1..Len(columns) |->
            IF HasColumn(t, columns[j]) THEN t.rows[i][Pos(t, columns[j])] ELSE NaN]]

RECURSIVE ConcatRows(_, _)
ConcatRows(dfs, columns) ==
    IF dfs = <<>> THEN <<>>
    ELSE Reindex(Head(dfs), columns) \o ConcatRows(Tail(dfs), columns)

\* pd.concat: the dtype of a column of the result: object when an input has
\* it as object, int64 when every input has it as int64, else float64.
ConcatDtype(dfs, c) ==
    LET with_c == {k \in 1..Len(dfs) : HasColumn(dfs[k], c)}
        dtypes == {dfs[k].dtypes[Pos(dfs[k], c)] : k \in with_c}
    IN  IF Cardinality(dtypes) = 1 /\ ~is_numeric_dtype(CHOOSE d \in dtypes : TRUE)
        THEN CHOOSE d \in dtypes : TRUE
        ELSE IF \E d \in dtypes : ~is_numeric_dtype(d) THEN "object"
        ELSE IF dtypes = {"int64"} /\ with_c = 1..Len(dfs) THEN "int64"
        ELSE "float64"

\* loader.py 56: pd.concat(dfs, ignore_index=True) raises ValueError ("No
\* objects to concatenate") for an empty list.
concat(dfs) ==
    LET columns == UnionColumns(dfs, <<>>)
    IN  IF dfs = <<>>
        THEN [raised |-> TRUE, error |-> <<"ValueError">>, value |-> <<>>]
        ELSE [raised |-> FALSE, error |-> <<>>,
              value |-> [columns |-> columns,
                         dtypes |-> [j \in 1..Len(columns) |-> ConcatDtype(dfs, columns[j])],
                         rows |-> ConcatRows(dfs, columns)]]

\* loader.py 41-58
load_multiple_csv(files, file_paths) ==
    LET loop == LoadLoop(files, file_paths, <<>>, <<>>)
        combined_df == concat(loop.dfs)
    IN  IF loop.raised
        THEN [raised |-> TRUE, error |-> loop.error, value |-> <<>>, loaded |-> loop.loaded]
        ELSE [raised |-> combined_df.raised, error |-> combined_df.error,
              value |-> combined_df.value, loaded |-> loop.loaded]

(***************************************************************************)
(* KPIAnalyzer (src/analysis/kpi.py).  The names of the columns it reads   *)
(* and of the indicators it writes, as character sequences.                *)
(***************************************************************************)
\* The columns the analyzer reads, and one it does not.
ColName ==
    [handle_time |-> <<"h", "a", "n", "d", "l", "e", "_", "t", "i", "m", "e">>,
     first_call_resolution |-> <<"f", "i", "r", "s", "t", "_", "c", "a", "l", "l", "_", "r",
         "e", "s", "o", "l", "u", "t", "i", "o", "n">>,
     calls_offered |-> <<"c", "a", "l", "l", "s", "_", "o", "f", "f", "e", "r", "e", "d">>,
     calls_answered |-> <<"c", "a", "l", "l", "s", "_", "a", "n", "s", "w", "e", "r", "e", "d">>,
     logged_time |-> <<"l", "o", "g", "g", "e", "d", "_", "t", "i", "m", "e">>,
     productive_time |-> <<"p", "r", "o", "d", "u", "c", "t", "i", "v", "e", "_", "t", "i",
         "m", "e">>,
     scheduled_time |-> <<"s", "c", "h", "e", "d", "u", "l", "e", "d", "_", "t", "i", "m", "e">>,
     actual_time |-> <<"a", "c", "t", "u", "a", "l", "_", "t", "i", "m", "e">>,
     qa_score |-> <<"q", "a", "_", "s", "c", "o", "r", "e">>,
     csat_score |-> <<"c", "s", "a", "t", "_", "s", "c", "o", "r", "e">>,
     nps_score |-> <<"n", "p", "s", "_", "s", "c", "o", "r", "e">>,
     compliance_pass |-> <<"c", "o", "m", "p", "l", "i", "a", "n", "c", "e", "_", "p", "a",
         "s", "s">>,
     error_count |-> <<"e", "r", "r", "o", "r", "_", "c", "o", "u", "n", "t">>,
     total_interactions |-> <<"t", "o", "t", "a", "l", "_", "i", "n", "t", "e", "r", "a", "c",
         "t", "i", "o", "n", "s">>,
     agent |-> <<"a", "g", "e", "n", "t">>]

\* The indicators it writes.
KpiName ==
    [aht |-> <<"a", "h", "t">>,
     aht_median |-> <<"a", "h", "t", "_", "m", "e", "d", "i", "a", "n">>,
     aht_std |-> <<"a", "h", "t", "_", "s", "t", "d">>,
     fcr_rate |-> <<"f", "c", "r", "_", "r", "a", "t", "e">>,
     service_level |-> <<"s", "e", "r", "v", "i", "c", "e", "_", "l", "e", "v", "e", "l">>,
     occupancy_rate |-> <<"o", "c", "c", "u", "p", "a", "n", "c", "y", "_", "r", "a", "t", "e">>,
     adherence |-> <<"a", "d", "h", "e", "r", "e", "n", "c", "e">>,
     qa_score_avg |-> <<"q", "a", "_", "s", "c", "o", "r", "e", "_", "a", "v", "g">>,
     qa_score_median |-> <<"q", "a", "_", "s", "c", "o", "r", "e", "_", "m", "e", "d", "i",
         "a", "n">>,
     qa_score_std |-> <<"q", "a", "_", "s", "c", "o", "r", "e", "_", "s", "t", "d">>,
     csat_avg |-> <<"c", "s", "a", "t", "_", "a", "v", "g">>,
     csat_median |-> <<"c", "s", "a", "t", "_", "m", "e", "d", "i", "a", "n">>,
     nps_avg |-> <<"n", "p", "s", "_", "a", "v", "g">>,
     compliance_rate |-> <<"c", "o", "m", "p", "l", "i", "a", "n", "c", "e", "_", "r", "a",
         "t", "e">>,
     error_rate |-> <<"e", "r", "r", "o", "r", "_", "r", "a", "t", "e">>]

\* The place of a value whose computation raised TypeError.
TypeError == [t |-> "err", n |-> 0, d |-> 1, s |-> "TypeError"]

\* Series.std(): carried as the variance it is the root of.
Std(variance) ==
    IF IsNum(variance) THEN [t |-> "sqrt", n |-> variance.n, d |-> variance.d, s |-> ""]
    ELSE variance

Dtype(t, name) == t.dtypes[Pos(t, name)]

\* Series.mean(), median() and std() by dtype: computed on a numeric column;
\* NaT on a datetime column, whose cells are all NaT where no text is a date; on an
\* object column, nan when it has no value and TypeError when it has text.
SeriesStatistic(t, name, numeric) ==
    CASE is_numeric_dtype(Dtype(t, name)) -> numeric
      [] Dtype(t, name) = "datetime64" -> NaN
      [] OTHER -> IF Valid(Column(t, Pos(t, name))) = <<>> THEN NaN ELSE TypeError

SeriesMean(t, name) == SeriesStatistic(t, name, Mean(Column(t, Pos(t, name))))

SeriesMedian(t, name) == SeriesStatistic(t, name, Median(Column(t, Pos(t, name))))

SeriesStd(t, name) == SeriesStatistic(t, name, Std(Variance(Column(t, Pos(t, name)))))

\* df[name].sum(): nan is skipped; a datetime column does not support sum;
\* the sum of an object column of strings is their concatenation (a str), and
\* a missing cell among them raises.
SeriesSum(t, name) ==
    LET col == Column(t, Pos(t, name))
    IN  CASE is_numeric_dtype(Dtype(t, name)) -> FSum(Valid(col))
          [] Dtype(t, name) = "datetime64" -> TypeError
          [] OTHER -> IF Valid(col) = <<>> THEN Int2F(0)
                      ELSE IF \E i \in 1..Len(col) : isnull(col[i]) THEN TypeError
                      ELSE Str("+")

\* numerator / denominator if denominator > 0 else 0, on Python values: a
\* str compared with or divided by a number raises TypeError.  The numerator
\* is looked at in the chosen branch only (where the sums are taken inside
\* the conditional expression, the numerator's is taken there).
GuardedRatio(numerator, denominator) ==
    IF denominator.t \in {"err", "str"} THEN TypeError
    ELSE IF FGt(denominator, Int2F(0))
         THEN (IF numerator.t \in {"err", "str"} THEN TypeError
               ELSE FDiv(numerator, denominator))
         ELSE Int2F(0)

EmptyDict == [k \in {} |-> NaN]

\* A dict raised if the computation of one of its values did.
Returned(dict) ==
    IF \E k \in DOMAIN dict : dict[k].t = "err"
    THEN [raised |-> TRUE, value |-> EmptyDict]
    ELSE [raised |-> FALSE, value |-> dict]

calculate_performance_kpis(t) ==
    LET handle ==
            IF HasColumn(t, ColName.handle_time)
            THEN (KpiName.aht :> SeriesMean(t, ColName.handle_time))
                     @@ (KpiName.aht_median :> SeriesMedian(t, ColName.handle_time))
                     @@ (KpiName.aht_std :> SeriesStd(t, ColName.handle_time))
            ELSE EmptyDict
        fcr ==
            IF HasColumn(t, ColName.first_call_resolution)
            THEN KpiName.fcr_rate :> SeriesMean(t, ColName.first_call_resolution)
            ELSE EmptyDict
        service ==
            IF HasColumn(t, ColName.calls_offered) /\ HasColumn(t, ColName.calls_answered)
            THEN KpiName.service_level :>
                     GuardedRatio(SeriesSum(t, ColName.calls_answered),
                                  SeriesSum(t, ColName.calls_offered))
            ELSE EmptyDict
        occupancy ==
            IF HasColumn(t, ColName.logged_time) /\ HasColumn(t, ColName.productive_time)
            THEN KpiName.occupancy_rate :>
                     (IF SeriesSum(t, ColName.productive_time).t = "err" THEN TypeError
                      ELSE GuardedRatio(SeriesSum(t, ColName.productive_time),
                                        SeriesSum(t, ColName.logged_time)))
            ELSE EmptyDict
        adhere ==
            IF HasColumn(t, ColName.scheduled_time) /\ HasColumn(t, ColName.actual_time)
            THEN KpiName.adherence :>
                     GuardedRatio(SeriesSum(t, ColName.actual_time),
                                  SeriesSum(t, ColName.scheduled_time))
            ELSE EmptyDict
    IN  Returned(handle @@ fcr @@ service @@ occupancy @@ adhere)

calculate_quality_kpis(t) ==
    LET qa ==
            IF HasColumn(t, ColName.qa_score)
            THEN (KpiName.qa_score_avg :> SeriesMean(t, ColName.qa_score))
                     @@ (KpiName.qa_score_median :> SeriesMedian(t, ColName.qa_score))
                     @@ (KpiName.qa_score_std :> SeriesStd(t, ColName.qa_score))
            ELSE EmptyDict
        csat ==
            IF HasColumn(t, ColName.csat_score)
            THEN (KpiName.csat_avg :> SeriesMean(t, ColName.csat_score))
                     @@ (KpiName.csat_median :> SeriesMedian(t, ColName.csat_score))
            ELSE EmptyDict
        nps ==
            IF HasColumn(t, ColName.nps_score)
            THEN KpiName.nps_avg :> SeriesMean(t, ColName.nps_score)
            ELSE EmptyDict
        compliance ==
            IF HasColumn(t, ColName.compliance_pass)
            THEN KpiName.compliance_rate :> SeriesMean(t, ColName.compliance_pass)
            ELSE EmptyDict
        errors ==
            IF HasColumn(t, ColName.error_count) /\ HasColumn(t, ColName.total_interactions)
            THEN KpiName.error_rate :>
                     (IF SeriesSum(t, ColName.error_count).t = "err" THEN TypeError
                      ELSE GuardedRatio(SeriesSum(t, ColName.error_count),
                                        SeriesSum(t, ColName.total_interactions)))
            ELSE EmptyDict
    IN  Returned(qa @@ csat @@ nps @@ compliance @@ errors)

calculate_all_kpis(t) ==
    LET performance == calculate_performance_kpis(t)
        quality == calculate_quality_kpis(t)
    IN  IF performance.raised \/ quality.raised
        THEN [raised |-> TRUE, performance |-> EmptyDict, quality |-> EmptyDict]
        ELSE [raised |-> FALSE,
              performance |-> performance.value, quality |-> quality.value]


\* The keys of the configured thresholds: those of the default configuration,
\* and the indicators' base names.
ThresholdKey ==
    [aht_target |-> <<"a", "h", "t", "_", "t", "a", "r", "g", "e", "t">>,
     fcr_target |-> <<"f", "c", "r", "_", "t", "a", "r", "g", "e", "t">>,
     service_level_target |-> <<"s", "e", "r", "v", "i", "c", "e", "_", "l", "e", "v", "e",
         "l", "_", "t", "a", "r", "g", "e", "t">>,
     qa_score_target |-> <<"q", "a", "_", "s", "c", "o", "r", "e", "_", "t", "a", "r", "g",
         "e", "t">>,
     csat_target |-> <<"c", "s", "a", "t", "_", "t", "a", "r", "g", "e", "t">>,
     nps_target |-> <<"n", "p", "s", "_", "t", "a", "r", "g", "e", "t">>,
     aht |-> <<"a", "h", "t">>,
     fcr |-> <<"f", "c", "r">>,
     service_level |-> <<"s", "e", "r", "v", "i", "c", "e", "_", "l", "e", "v", "e", "l">>,
     occupancy |-> <<"o", "c", "c", "u", "p", "a", "n", "c", "y">>,
     qa_score |-> <<"q", "a", "_", "s", "c", "o", "r", "e">>,
     csat |-> <<"c", "s", "a", "t">>,
     nps |-> <<"n", "p", "s">>]

\* Indicators of a caller's own, and the key one of them resolves to.
CustomName ==
    [error_rate_trend |-> <<"e", "r", "r", "o", "r", "_", "r", "a", "t", "e", "_", "t", "r",
         "e", "n", "d">>,
     avg_wait |-> <<"a", "v", "g", "_", "w", "a", "i", "t">>,
     error_trend |-> <<"e", "r", "r", "o", "r", "_", "t", "r", "e", "n", "d">>]

\* The suffixes that compare_to_targets removes.
Suffix ==
    [avg |-> <<"_", "a", "v", "g">>,
     rate |-> <<"_", "r", "a", "t", "e">>]

\* ConfigManager._get_default_config()['kpi_thresholds']
DefaultThresholds ==
    [c \in {"performance", "quality"} |->
        IF c = "performance"
        THEN (ThresholdKey.aht_target :> Int2F(300)) @@ (ThresholdKey.fcr_target :> Num(85, 100))
                 @@ (ThresholdKey.service_level_target :> Num(80, 100))
        ELSE (ThresholdKey.qa_score_target :> Int2F(90)) @@ (ThresholdKey.csat_target :> Int2F(4))
                 @@ (ThresholdKey.nps_target :> Int2F(50))]

\* A configuration file whose keys are the indicators' base names.
BaseNameThresholds ==
    [c \in {"performance", "quality"} |->
        IF c = "performance"
        THEN (ThresholdKey.aht :> Int2F(300)) @@ (ThresholdKey.fcr :> Num(85, 100))
                 @@ (ThresholdKey.service_level :> Num(80, 100)) @@ (ThresholdKey.occupancy :> Int2F(0))
        ELSE (ThresholdKey.qa_score :> Int2F(90)) @@ (ThresholdKey.csat :> Int2F(4))
                 @@ (ThresholdKey.nps :> Int2F(50)) @@ (CustomName.error_trend :> Num(1, 10))]

DefaultConfig ==
    [outlier_std |-> 3, min_data_points |-> 30, correlation_threshold |-> Num(3, 10),
     kpi_thresholds |-> DefaultThresholds]

StartsWith(s, prefix) ==
    Len(s) >= Len(prefix) /\ SubSeq(s, 1, Len(prefix)) = prefix

\* str.replace(old, new): every occurrence, left to right, without overlap.
RECURSIVE Replace(_, _, _)
Replace(s, old, new) ==
    IF s = <<>> THEN <<>>
    ELSE IF StartsWith(s, old)
         THEN new \o Replace(SubSeq(s, Len(old) + 1, Len(s)), old, new)
         ELSE <<Head(s)>> \o Replace(Tail(s), old, new)

\* kpi_name.replace('_avg', '').replace('_rate', '')
TargetKey(kpi_name) == Replace(Replace(kpi_name, Suffix.avg, <<>>), Suffix.rate, <<>>)

\* dict.get(key, default)
DictGet(dict, key, default) == IF key \in DOMAIN dict THEN dict[key] ELSE default

\* A slip: no guard, the key is looked up whether it is there or not.
HasTarget_always(targets, target_key) == TRUE

\* The guard of the loop body: target_key in targets.
HasTarget(targets, target_key) == target_key \in DOMAIN targets

KeyError == [t |-> "err", n |-> 0, d |-> 1, s |-> "KeyError"]

\* A slip: value > target, so that a value on its target does not meet it.
Comparison_strict(value, targets, target_key) ==
    IF target_key \notin DOMAIN targets THEN [raised |-> TRUE]
    ELSE LET target == targets[target_key]
             delta == FSub(value, target)
         IN  [raised |-> FALSE,
              actual |-> value,
              target |-> target,
              delta |-> delta,
              pct_delta |-> IF target # Int2F(0)
                            THEN FMul(FDiv(delta, target), Int2F(100))
                            ELSE Int2F(0),
              meets_target |-> FGt(value, target)]

\* The body of the loop for one indicator: targets[target_key] raises
\* KeyError for a key that is not there.
Comparison(value, targets, target_key) ==
    IF target_key \notin DOMAIN targets THEN [raised |-> TRUE]
    ELSE LET target == targets[target_key]
             delta == FSub(value, target)
         IN  [raised |-> FALSE,
              actual |-> value,
              target |-> target,
              delta |-> delta,
              pct_delta |-> IF target # Int2F(0)
                            THEN FMul(FDiv(delta, target), Int2F(100))
                            ELSE Int2F(0),
              meets_target |-> FGe(value, target)]

compare_to_targets(thresholds, kpis, kpi_type) ==
    LET targets == DictGet(thresholds, kpi_type, EmptyDict)
        compared == {name \in DOMAIN kpis : HasTarget(targets, TargetKey(name))}
        comparisons == [name \in compared |->
                           Comparison(kpis[name], targets, TargetKey(name))]
    IN  IF \E name \in compared : comparisons[name].raised
        THEN [raised |-> TRUE, value |-> EmptyDict]
        ELSE [raised |-> FALSE, value |-> comparisons]

(***************************************************************************)
(* src/analysis/correlation.py: CorrelationAnalyzer.  A Pearson            *)
(* coefficient is the quotient of a covariance by a square root; it is     *)
(* carried as its sign and its square, which are rational, or as nan.      *)
(***************************************************************************)
CoefNaN == [nan |-> TRUE, sgn |-> 0, sq |-> Int2F(0)]

Coef(sgn, sq) == [nan |-> FALSE, sgn |-> sgn, sq |-> sq]

Squares(s) == [i \in 1..Len(s) |-> FMul(s[i], s[i])]

Products(x, y) == [i \in 1..Len(x) |-> FMul(x[i], y[i])]

\* DataFrame.corr(method='pearson') for one pair of columns: over the rows
\* where both have a value; nan without such a row or when the product of the
\* two sums of squared deviations is zero.  The diagonal is computed as any
\* other pair.
Pearson(x, y) ==
    LET mask == [i \in 1..Len(x) |-> ~isnull(x[i]) /\ ~isnull(y[i])]
        xs == Compress(x, mask)
        ys == Compress(y, mask)
        nobs == Int2F(Len(xs))
        Sxx == FSub(FMul(nobs, FSum(Squares(xs))), FMul(FSum(xs), FSum(xs)))
        Syy == FSub(FMul(nobs, FSum(Squares(ys))), FMul(FSum(ys), FSum(ys)))
        Sxy == FSub(FMul(nobs, FSum(Products(xs, ys))), FMul(FSum(xs), FSum(ys)))
        divisor2 == FMul(Sxx, Syy)
    IN  IF Len(xs) < 1 \/ divisor2 = Int2F(0) THEN CoefNaN
        ELSE Coef(Sign(Sxy.n), FDiv(FMul(Sxy, Sxy), divisor2))

\* The positions js, in column order.
PositionsInOrder(t, js) == SelectSeq([j \in 1..NCols(t) |-> j], LAMBDA j : j \in js)

calculate_correlation_matrix(t) ==
    LET numeric_cols == PositionsInOrder(t, NumericPositions(t))
        k == Len(numeric_cols)
    IN  [columns |-> [i \in 1..k |-> t.columns[numeric_cols[i]]],
         values |-> [i \in 1..k |-> [j \in 1..k |->
                        Pearson(Column(t, numeric_cols[i]), Column(t, numeric_cols[j]))]]]

\* A slip: a coefficient that is nan is kept.
AbsGe_keeps_nan(corr_value, threshold) ==
    \/ corr_value.nan
    \/ FGe(Int2F(0), threshold)
    \/ FGe(corr_value.sq, FMul(threshold, threshold))

\* abs(corr_value) >= threshold: false for nan on either side; for a
\* threshold above zero, the squares compare as the magnitudes do.
AbsGe(corr_value, threshold) ==
    /\ ~corr_value.nan
    /\ \/ FGe(Int2F(0), threshold)
       \/ FGe(corr_value.sq, FMul(threshold, threshold))

\* The loops over i and over j from i + 1, appending the pairs that pass.
RECURSIVE PairLoop(_, _, _, _)
PairLoop(corr_matrix, threshold, i, j) ==
    LET k == Len(corr_matrix.columns)
    IN  IF i > k THEN <<>>
        ELSE IF j > k THEN PairLoop(corr_matrix, threshold, i + 1, i + 2)
        ELSE (IF AbsGe(corr_matrix.values[i][j], threshold)
              THEN <<[var1 |-> corr_matrix.columns[i], var2 |-> corr_matrix.columns[j],
                      corr |-> corr_matrix.values[i][j]]>>
              ELSE <<>>)
             \o PairLoop(corr_matrix, threshold, i, j + 1)

\* A slip: a sort that is not stable, a pair going behind those of its
\* magnitude that were appended after it.
RECURSIVE InsertByAbs_after_ties(_, _)
InsertByAbs_after_ties(x, s) ==
    IF s = <<>> THEN <<x>>
    ELSE IF FGe(Head(s).corr.sq, x.corr.sq)
         THEN <<Head(s)>> \o InsertByAbs_after_ties(x, Tail(s))
    ELSE <<x>> \o s

\* list.sort(key=abs, reverse=True): by magnitude, largest first, pairs of
\* equal magnitude in the order they were appended.
RECURSIVE InsertByAbs(_, _)
InsertByAbs(x, s) ==
    IF s = <<>> THEN <<x>>
    ELSE IF FGt(Head(s).corr.sq, x.corr.sq) THEN <<Head(s)>> \o InsertByAbs(x, Tail(s))
    ELSE <<x>> \o s

RECURSIVE SortedByAbs(_)
SortedByAbs(s) == IF s = <<>> THEN <<>> ELSE InsertByAbs(Head(s), SortedByAbs(Tail(s)))

\* threshold is None, or Some(t); None takes the configured default.
find_strong_correlations(correlation_threshold, corr_matrix, threshold) ==
    LET t == IF threshold.some THEN threshold.v ELSE correlation_threshold
    IN  SortedByAbs(PairLoop(corr_matrix, t, 1, 2))

\* analyze_relationships: the matrix, the strong pairs at the configured
\* threshold, and whether the component analysis is run (from three numeric
\* columns on; what it computes is not modelled).
analyze_relationships(correlation_threshold, t) ==
    LET correlation_matrix == calculate_correlation_matrix(t)
    IN  [correlation_matrix |-> correlation_matrix,
         strong_correlations |->
             find_strong_correlations(correlation_threshold, correlation_matrix, None),
         pca |-> Cardinality(NumericPositions(t)) >= 3]


\* df[[feature, target]].dropna(): the two columns over the rows where both
\* have a value.
PairedRows(t, feature, target) ==
    LET x == Column(t, Pos(t, feature))
        y == Column(t, Pos(t, target))
        mask == [i \in 1..NRows(t) |-> ~isnull(x[i]) /\ ~isnull(y[i])]
    IN  [x |-> Compress(x, mask), y |-> Compress(y, mask)]

\* LinearRegression().fit(X, y) with one feature, and the metrics of its
\* predictions: the least-squares line (slope 0 for a feature that does not
\* vary); r2_score is 1 - SS_res / SS_tot, and 1.0 or 0.0 when SS_tot is
\* zero; rmse is carried as the mean squared error it is the root of.
Regression(x, y) ==
    LET n == Int2F(Len(x))
        x_mean == FDiv(FSum(x), n)
        y_mean == FDiv(FSum(y), n)
        Sxx == FSum([i \in 1..Len(x) |-> FMul(FSub(x[i], x_mean), FSub(x[i], x_mean))])
        Sxy == FSum([i \in 1..Len(x) |-> FMul(FSub(x[i], x_mean), FSub(y[i], y_mean))])
        coefficient == IF Sxx = Int2F(0) THEN Int2F(0) ELSE FDiv(Sxy, Sxx)
        intercept == FSub(y_mean, FMul(coefficient, x_mean))
        y_pred == [i \in 1..Len(x) |-> FAdd(intercept, FMul(coefficient, x[i]))]
        SS_res == FSum([i \in 1..Len(x) |-> FMul(FSub(y[i], y_pred[i]), FSub(y[i], y_pred[i]))])
        SS_tot == FSum([i \in 1..Len(x) |-> FMul(FSub(y[i], y_mean), FSub(y[i], y_mean))])
    IN  [coefficient |-> coefficient,
         intercept |-> intercept,
         r2_score |-> IF SS_tot = Int2F(0)
                      THEN (IF SS_res = Int2F(0) THEN Int2F(1) ELSE Int2F(0))
                      ELSE FSub(Int2F(1), FDiv(SS_res, SS_tot)),
         rmse |-> Std(FDiv(SS_res, n)),
         correlation |-> Pearson(x, y)]

\* The loop over features, results being the dict so far.  A feature is
\* passed over when it or the target is not a column, or when fewer than 10
\* rows have both; fit raises ValueError for a column of text, and nothing is
\* returned.
RECURSIVE RegressionLoop(_, _, _, _)
RegressionLoop(t, target, features, results) ==
    IF features = <<>> THEN [raised |-> FALSE, value |-> results]
    ELSE LET feature == Head(features)
             data == PairedRows(t, feature, target)
         IN  IF ~HasColumn(t, feature) \/ ~HasColumn(t, target)
             THEN RegressionLoop(t, target, Tail(features), results)
             ELSE IF Len(data.x) < 10
             THEN RegressionLoop(t, target, Tail(features), results)
             ELSE IF \E i \in 1..Len(data.x) : data.x[i].t = "str" \/ data.y[i].t = "str"
             THEN [raised |-> TRUE, value |-> EmptyDict]
             ELSE RegressionLoop(t, target, Tail(features),
                      (feature :> Regression(data.x, data.y)) @@ results)

perform_regression_analysis(t, target, features) ==
    RegressionLoop(t, target, features, EmptyDict)
(***************************************************************************)
(* src/analysis/statistics.py: StatisticalAnalyzer.detect_anomalies.       *)
(***************************************************************************)
is_anomaly == <<"i", "s", "_", "a", "n", "o", "m", "a", "l", "y">>

Bool(b) == [t |-> "bool", n |-> IF b THEN 1 ELSE 0, d |-> 1, s |-> ""]

\* The square of scipy.stats.zscore of the values (ddof=0): nan when they
\* do not vary.
ZScoresPopulationSq(values) ==
    LET mean == Mean(values)
        n == Int2F(Len(values))
        variance == FDiv(FSum([i \in 1..Len(values) |->
                                  FMul(FSub(values[i], mean), FSub(values[i], mean))]), n)
    IN  [i \in 1..Len(values) |-> ZScoreSq(values[i], mean, variance)]

\* Series.quantile(q), q = qn/4, by linear interpolation between the two
\* nearest of the sorted non-missing values; nan without values.
Quantile(col, qn) ==
    LET v == Sorted(Valid(col))
        at == (Len(v) - 1) * qn
        lo == at \div 4
        frac == Num(at % 4, 4)
    IN  IF v = <<>> THEN NaN
        ELSE IF at % 4 = 0 THEN v[lo + 1]
        ELSE FAdd(v[lo + 1], FMul(frac, FSub(v[lo + 2], v[lo + 1])))

\* The flags of method 'iqr': a missing value is not flagged.
IqrFlags(col, threshold) ==
    LET Q1 == Quantile(col, 1)
        Q3 == Quantile(col, 3)
        IQR == FSub(Q3, Q1)
        lower_bound == FSub(Q1, FMul(Int2F(threshold), IQR))
        upper_bound == FAdd(Q3, FMul(Int2F(threshold), IQR))
    IN  [i \in 1..Len(col) |-> FGt(lower_bound, col[i]) \/ FGt(col[i], upper_bound)]

\* df_copy['is_anomaly'] = flags
WithFlags(t, flags) ==
    [columns |-> Append(t.columns, is_anomaly),
     dtypes |-> Append(t.dtypes, "bool"),
     rows |-> [i \in 1..NRows(t) |-> Append(t.rows[i], Bool(flags[i]))]]

\* statistics.py 156-175 on the copy.  Raised: KeyError for a column that is
\* not there, or for 'is_anomaly' when the method is neither; TypeError for a
\* column that is not numeric; ValueError when the z-scores of the
\* non-missing values, an array, are fewer than the rows.
detect_anomalies(t, column, method, threshold) ==
    LET col == Column(t, Pos(t, column))
    IN  IF ~HasColumn(t, column) \/ method \notin {"zscore", "iqr"}
            \/ ~is_numeric_dtype(Dtype(t, column))
        THEN [raised |-> TRUE, value |-> <<>>]
        ELSE IF method = "iqr"
        THEN [raised |-> FALSE, value |-> WithFlags(t, IqrFlags(col, threshold))]
        ELSE IF Len(Valid(col)) # Len(col) THEN [raised |-> TRUE, value |-> <<>>]
        ELSE [raised |-> FALSE,
              value |-> WithFlags(t, [i \in 1..Len(col) |->
                            ExceedsStd(ZScoresPopulationSq(col)[i], threshold)])]

(***************************************************************************)
(* src/analysis/kpi.py: KPIAnalyzer.analyze_trends, with the default       *)
(* period 'D', on a date column of texts, dates and missing cells.         *)
(***************************************************************************)
\* A slip: only the first of the names is looked for.
NotFound_first(t, names) == ~HasColumn(t, names[1])

\* 'a not in df.columns or b not in df.columns', for the names in order.
NotFound(t, names) == \E k \in 1..Len(names) : ~HasColumn(t, names[k])

\* pd.to_datetime(cell) of kpi.py 218, which raises for a text that is not
\* a date.
to_datetime_strict(cell) ==
    IF cell.t = "str"
    THEN (IF strptime(cell.s).some
          THEN [raised |-> FALSE, value |-> Timestamp(strptime(cell.s).v)]
          ELSE [raised |-> TRUE, value |-> NaT])
    ELSE [raised |-> FALSE, value |-> IF cell.t = "date" THEN cell ELSE NaT]

\* Series.rolling(window).mean(): the mean of the window rows that end at
\* row i, nan when they are fewer than window or one of them is missing.
RollingMean(col, window) ==
    [i \in 1..Len(col) |->
        IF i < window \/ \E k \in (i - window + 1)..i : isnull(col[k]) THEN NaN
        ELSE Mean(SubSeq(col, i - window + 1, i))]

\* resample('D').agg(['mean', 'median', 'std', 'count']) and the column
\* rolling_avg_7: one row per day from the first date to the last, NaT
\* left out; the rolling mean of the rows is aligned on the labels, so a day
\* has the value of the row of that date.
Trend(index, metric) ==
    LET days == {index[i].n : i \in {k \in 1..Len(index) : ~isnull(index[k])}}
        first == CHOOSE a \in days : \A b \in days : a <= b
        last == CHOOSE a \in days : \A b \in days : b <= a
        rolling == RollingMean(metric, 7)
        Of(day) == SelectSeq([i \in 1..Len(index) |-> i],
                             LAMBDA i : index[i] = Timestamp(day))
        Bin(day) == [k \in 1..Len(Of(day)) |-> metric[Of(day)[k]]]
    IN  [p \in 1..(last - first + 1) |->
            LET day == first + p - 1
            IN  [period |-> Timestamp(day),
                 mean |-> Mean(Bin(day)),
                 median |-> Median(Bin(day)),
                 std |-> Std(Variance(Bin(day))),
                 count |-> Len(Valid(Bin(day))),
                 rolling_avg_7 |-> IF Of(day) = <<>> THEN NaN
                                   ELSE rolling[Of(day)[1]]]]

\* kpi.py 217-224 on the copy whose date column has been converted.  Raised:
\* KeyError when the metric column is not a column, or is the date column,
\* which set_index took away; TypeError for a metric of texts; ValueError from resample when
\* every date is NaT, and from the assignment of rolling_avg_7 when a date
\* is there twice (the rows cannot be aligned on the labels).
TrendOf(t, date_column, metric_column) ==
    LET index == Column(t, Pos(t, date_column))
        metric == Column(t, Pos(t, metric_column))
    IN  IF ~HasColumn(t, metric_column) \/ date_column = metric_column
            \/ (\E i \in 1..Len(metric) : metric[i].t = "str")
            \/ (index # <<>> /\ Valid(index) = <<>>)
            \/ \E i, k \in 1..Len(index) : i # k /\ index[i] = index[k]
        THEN [raised |-> TRUE, value |-> <<>>]
        ELSE [raised |-> FALSE,
              value |-> IF index = <<>> THEN <<>> ELSE Trend(index, metric)]

(***************************************************************************)
(* src/data/validator.py: DataValidator.validate_value_ranges.             *)
(***************************************************************************)
\* A slip: a value on the bound counts as outside.
OutOfRange_inclusive(x, min_val, max_val) == FGe(min_val, x) \/ FGe(x, max_val)

\* (df[col] < min_val) | (df[col] > max_val) for one cell: False for a
\* missing cell, as a comparison with nan is.
OutOfRange(x, min_val, max_val) == FGt(min_val, x) \/ FGt(x, max_val)

\* validator.py 90-105.  range_spec maps names to <<min, max>>.  The
\* comparison of a text with a number raises TypeError, and nothing is
\* returned.
validate_value_ranges(t, range_spec) ==
    LET checked == {col \in DOMAIN range_spec : HasColumn(t, col)}
        out_of_range(col) ==
            Cardinality({i \in 1..NRows(t) :
                OutOfRange(t.rows[i][Pos(t, col)], range_spec[col][1], range_spec[col][2])})
        violations == [col \in {c \in checked : out_of_range(c) > 0} |-> out_of_range(col)]
    IN  IF \E col \in checked : \E i \in 1..NRows(t) : t.rows[i][Pos(t, col)].t = "str"
        THEN [raised |-> TRUE, valid |-> FALSE, violations |-> EmptyDict]
        ELSE [raised |-> FALSE, valid |-> DOMAIN violations = {}, violations |-> violations]

(***************************************************************************)
(* src/analysis/correlation.py: CorrelationAnalyzer.identify_kpi_drivers.  *)
(***************************************************************************)
\* correlation.py 188-200: the drivers of target_kpi among the numeric
\* columns, as pairs of a column and its coefficient, and the statements
\* that were begun.  Series.corr raises for a target of text.
identify_kpi_drivers(t, target_kpi, min_correlation) ==
    LET numeric_cols == PositionsInOrder(t, NumericPositions(t))
        others == SelectSeq(numeric_cols, LAMBDA j : t.columns[j] # target_kpi)
        target == Column(t, Pos(t, target_kpi))
        corr(j) == Pearson(target, Column(t, j))
        kept == SelectSeq(others, LAMBDA j : AbsGe(corr(j), min_correlation))
        correlations == [k \in 1..Len(kept) |->
                            [var |-> t.columns[kept[k]], corr |-> corr(kept[k])]]
    IN  IF NotFound(t, <<target_kpi>>)
        THEN [raised |-> TRUE, value |-> <<>>, steps |-> <<>>]
        ELSE IF others # <<>> /\ \E i \in 1..Len(target) : target[i].t = "str"
        THEN [raised |-> TRUE, value |-> <<>>, steps |-> <<"select_dtypes", "corr">>]
        ELSE [raised |-> FALSE, value |-> SortedByAbs(correlations),
              steps |-> <<"select_dtypes", "corr", "sort">>]

(***************************************************************************)
(* The transformations as they act on objects.  objects is the sequence of *)
(* the DataFrames alive during a call and a variable holds the position of *)
(* the one it is bound to; objects[1] is the table the caller passed.  An  *)
(* assignment to a column or to .columns changes the object the variable   *)
(* is bound to; a pandas method that returns a DataFrame makes a new one.  *)
(***************************************************************************)
\* A slip: df_copy = df, the same object under another name.
Copy_alias(objects, id) == [objects |-> objects, id |-> id]

\* df.copy(): a new object with the contents of objects[id].
Copy(objects, id) == [objects |-> Append(objects, objects[id]), id |-> Len(objects) + 1]

\* A method of objects[id] that returns a new DataFrame.
New(objects, table) == [objects |-> Append(objects, table), id |-> Len(objects) + 1]

\* cleaner.py 147-150
standardize_column_names_run(objects, id) ==
    LET df_copy == Copy(objects, id)
    IN  [objects |-> [df_copy.objects EXCEPT
                         ![df_copy.id] = standardize_column_names(@)],
         id |-> df_copy.id]

\* cleaner.py 126-135
\* drop_duplicates raises KeyError for a name of subset that is not a column.
remove_duplicates_run(objects, id, subset) ==
    IF subset.some /\ ~(Range(subset.v) \subseteq Range(objects[id].columns))
    THEN [objects |-> objects, id |-> 0]
    ELSE New(objects, remove_duplicates(objects[id], subset))

\* cleaner.py 29-65: dropna and fillna(method='ffill') return a new
\* DataFrame; the other strategies assign to columns of df_copy.
handle_missing_values_run(objects, id, strategy) ==
    LET df_copy == Copy(objects, id)
        handled == handle_missing_values(df_copy.objects[df_copy.id], strategy)
    IN  IF MissingCount(df_copy.objects[df_copy.id]) = 0 THEN df_copy
        ELSE IF strategy \in {"drop", "forward_fill"} THEN New(df_copy.objects, handled)
        ELSE [objects |-> [df_copy.objects EXCEPT ![df_copy.id] = handled],
              id |-> df_copy.id]

\* cleaner.py 103-113: df[mask].copy(); nothing is returned when
\* detect_outliers raises.
remove_outliers_run(objects, id, columns, k) ==
    LET removed == remove_outliers(objects[id], columns, k)
    IN  IF detect_outliers(objects[id], columns, k).raised
        THEN [objects |-> objects, id |-> 0]
        ELSE New(objects, removed)

\* cleaner.py 165-173
clean_data_run(objects, id, remove_flag, k) ==
    LET a == standardize_column_names_run(objects, id)
        b == remove_duplicates_run(a.objects, a.id, None)
        c == handle_missing_values_run(b.objects, b.id, "auto")
    IN  IF remove_flag THEN remove_outliers_run(c.objects, c.id, None, k) ELSE c

\* loader.py 107-119
parse_dates_run(objects, id, date_columns) ==
    LET df_copy == Copy(objects, id)
    IN  [objects |-> [df_copy.objects EXCEPT ![df_copy.id] = parse_dates(@, date_columns)],
         id |-> df_copy.id]


\* statistics.py 156: everything is done on df_copy, which is returned.
detect_anomalies_run(objects, id, column, method, threshold) ==
    LET df_copy == Copy(objects, id)
        flagged == detect_anomalies(df_copy.objects[df_copy.id], column, method, threshold)
    IN  IF flagged.raised THEN [objects |-> df_copy.objects, id |-> 0]
        ELSE [objects |-> [df_copy.objects EXCEPT ![df_copy.id] = flagged.value],
              id |-> df_copy.id]

\* kpi.py 214-224: the check of the columns comes before the copy; the date
\* column of df_trend is assigned to, set_index returns a new DataFrame and
\* the trend is built from it.  trend holds the result, not an object, and
\* steps the statements that were begun.
analyze_trends_run(objects, id, date_column, metric_column) ==
    LET df_trend == Copy(objects, id)
        table == df_trend.objects[df_trend.id]
        j == Pos(table, date_column)
        parsed == [i \in 1..NRows(table) |-> to_datetime_strict(table.rows[i][j])]
        converted == [objects |-> [df_trend.objects EXCEPT ![df_trend.id] =
                         [columns |-> table.columns,
                          dtypes |-> [table.dtypes EXCEPT ![j] = "datetime64"],
                          rows |-> [i \in 1..NRows(table) |->
                                       [table.rows[i] EXCEPT ![j] = parsed[i].value]]]],
                      id |-> df_trend.id]
        indexed == New(converted.objects, converted.objects[converted.id])
        trend == TrendOf(indexed.objects[indexed.id], date_column, metric_column)
    IN  IF NotFound(objects[id], <<date_column, metric_column>>)
        THEN [objects |-> objects, id |-> 0, trend |-> <<>>, steps |-> <<>>]
        ELSE IF \E i \in 1..NRows(table) : parsed[i].raised
        THEN [objects |-> df_trend.objects, id |-> 0, trend |-> <<>>,
              steps |-> <<"copy", "to_datetime">>]
        ELSE IF trend.raised
        THEN [objects |-> indexed.objects, id |-> 0, trend |-> <<>>,
              steps |-> <<"copy", "to_datetime", "set_index", "resample">>]
        ELSE [objects |-> indexed.objects, id |-> indexed.id, trend |-> trend.value,
              steps |-> <<"copy", "to_datetime", "set_index", "resample">>]
(***************************************************************************)
(* The inputs of the cleaner's specification: tables of up to MaxRows rows *)
(* over one of three column layouts, whose names standardize to distinct   *)
(* names (what two columns that standardize to one name do is left open).  *)
(***************************************************************************)
nAx == <<"A", " ", "x">>

nby == <<"b", "-", "y">>

nC == <<"C">>

nz == <<"z">>

Layouts ==
    { [columns |-> <<nAx>>, dtypes |-> <<"float64">>,
       cells |-> <<{Int2F(0), Int2F(4), NaN}>>],
      [columns |-> <<nAx, nby>>, dtypes |-> <<"float64", "int64">>,
       cells |-> <<{Int2F(0), Int2F(4)}, {Int2F(0), Int2F(4)}>>],
      [columns |-> <<nAx, nC>>, dtypes |-> <<"float64", "object">>,
       cells |-> <<{Int2F(0), NaN}, {Str("a"), NaN}>>] }

RowsOf(layout) ==
    {r \in [1..Len(layout.cells) -> UNION Range(layout.cells)] :
        \A j \in 1..Len(layout.cells) : r[j] \in layout.cells[j]}

TablesOf(layout) ==
    UNION {{[columns |-> layout.columns, dtypes |-> layout.dtypes, rows |-> rs] :
               rs \in [1..n -> RowsOf(layout)]} : n \in 0..MaxRows}

CleanerTables == UNION {TablesOf(l) : l \in Layouts}

\* The columns argument of detect_outliers and remove_outliers.
ColumnArgs ==
    {None, Some(<<nAx>>), Some(<<nby, nAx>>), Some(<<nC, nAx>>), Some(<<nz, nby, nby>>)}

InitCleaner ==
    /\ df \in CleanerTables
    /\ cfg \in {[DefaultConfig EXCEPT !.outlier_std = k] : k \in {1, 3}}
    /\ op = "none"
    /\ arg = None
    /\ ret = None
    /\ pc = "idle"
    /\ df_clean = df
    /\ stages = <<>>

\* One call is followed from each input: the methods are functions of their
\* arguments and of cfg, so a later call reaches the state it reaches here.
Callable == op = "none"

call_detect_outliers ==
    /\ Callable
    /\ \E columns \in ColumnArgs :
          /\ op' = "detect_outliers"
          /\ arg' = columns
          /\ ret' = detect_outliers(df, columns, cfg.outlier_std)
    /\ pc' = "idle" /\ df_clean' = df /\ stages' = <<>>
    /\ UNCHANGED <<df, cfg>>

call_remove_outliers ==
    /\ Callable
    /\ \E columns \in ColumnArgs :
          /\ op' = "remove_outliers"
          /\ arg' = columns
          /\ ret' = remove_outliers(df, columns, cfg.outlier_std)
    /\ pc' = "idle" /\ df_clean' = df /\ stages' = <<>>
    /\ UNCHANGED <<df, cfg>>

\* clean_data, statement by statement (cleaner.py 165-173).
clean_standardize ==
    /\ Callable
    /\ \E flag \in BOOLEAN : arg' = flag
    /\ op' = "clean_data"
    /\ ret' = None
    /\ df_clean' = standardize_column_names(df)
    /\ stages' = <<"standardize_column_names">>
    /\ pc' = "standardized"
    /\ UNCHANGED <<df, cfg>>

clean_deduplicate ==
    /\ pc = "standardized"
    /\ df_clean' = remove_duplicates(df_clean, None)
    /\ stages' = Append(stages, "remove_duplicates")
    /\ pc' = "deduplicated"
    /\ UNCHANGED <<df, cfg, op, arg, ret>>

\* A slip: the medians are taken before the duplicates are removed.
clean_fill_before_deduplicate ==
    /\ pc = "deduplicated"
    /\ df_clean' = remove_duplicates(
                       handle_missing_values(standardize_column_names(df), "auto"), None)
    /\ stages' = Append(stages, "handle_missing_values:auto")
    /\ pc' = "filled"
    /\ UNCHANGED <<df, cfg, op, arg, ret>>

clean_fill ==
    /\ pc = "deduplicated"
    /\ df_clean' = handle_missing_values(df_clean, "auto")
    /\ stages' = Append(stages, "handle_missing_values:auto")
    /\ pc' = "filled"
    /\ UNCHANGED <<df, cfg, op, arg, ret>>

clean_outliers ==
    /\ pc = "filled"
    /\ arg = TRUE
    /\ df_clean' = remove_outliers(df_clean, None, cfg.outlier_std)
    /\ stages' = Append(stages, "remove_outliers")
    /\ pc' = "checked"
    /\ UNCHANGED <<df, cfg, op, arg, ret>>

clean_return ==
    /\ \/ pc = "filled" /\ arg = FALSE
       \/ pc = "checked"
    /\ ret' = df_clean
    /\ pc' = "done"
    /\ UNCHANGED <<df, cfg, op, arg, df_clean, stages>>

NextCleaner ==
    \/ call_detect_outliers
    \/ call_remove_outliers
    \/ clean_standardize
    \/ clean_deduplicate
    \/ clean_fill
    \/ clean_outliers
    \/ clean_return

SpecCleaner == InitCleaner /\ [][NextCleaner]_vars

(***************************************************************************)
(* Properties of the cleaner.                                              *)
(***************************************************************************)
NoDuplicateRows(t) ==
    \A i, h \in 1..NRows(t) : i # h => t.rows[i] # t.rows[h]

IsPrefix(s, full) ==
    /\ Len(s) <= Len(full)
    /\ \A i \in 1..Len(s) : s[i] = full[i]

\* C2: clean_data(T, remove_outliers=False) returns at most as many rows as T
\* has, and exactly the rows of T, in order, when T has no duplicate rows and
\* no missing values.
C2_CleanKeepsRows ==
    (op = "clean_data" /\ pc = "done" /\ arg = FALSE) =>
        /\ NRows(ret) <= NRows(df)
        /\ (NoDuplicateRows(df) /\ MissingCount(df) = 0) => ret.rows = df.rows

C2_Witness ==
    /\ op = "clean_data" /\ pc = "done" /\ arg = FALSE
    /\ NoDuplicateRows(df) /\ MissingCount(df) = 0
    /\ NRows(df) = 4 /\ NCols(df) = 2
    /\ ret.rows = df.rows

\* The stages of clean_data, in the order of its statements.
CleanProgram(flag) ==
    <<"standardize_column_names", "remove_duplicates", "handle_missing_values:auto">>
        \o (IF flag THEN <<"remove_outliers">> ELSE <<>>)

\* C3: clean_data runs standardize_column_names, remove_duplicates,
\* handle_missing_values('auto') and, if and only if the flag is set,
\* remove_outliers, in this order, each once and each on the output of the
\* stage before it; every imputed numeric cell is the median of its column in
\* the de-duplicated table.
C3_CleanStageOrder ==
    op = "clean_data" =>
        LET a == standardize_column_names(df)
            b == remove_duplicates(a, None)
            c == handle_missing_values(b, "auto")
            d == remove_outliers(c, None, cfg.outlier_std)
        IN  /\ IsPrefix(stages, CleanProgram(arg))
            /\ pc = "standardized" => Len(stages) = 1 /\ df_clean = a
            /\ pc = "deduplicated" => Len(stages) = 2 /\ df_clean = b
            /\ pc = "filled" =>
                  /\ Len(stages) = 3
                  /\ df_clean = c
                  /\ \A i \in 1..NRows(b) : \A j \in NumericPositions(b) :
                        isnull(b.rows[i][j]) =>
                            df_clean.rows[i][j] = Median(Column(b, j))
            /\ pc = "checked" => Len(stages) = 4 /\ df_clean = d
            /\ pc = "done" =>
                  /\ stages = CleanProgram(arg)
                  /\ ret = (IF arg THEN d ELSE c)

\* A missing cell is imputed with a median that the duplicates would have moved.
C3_Witness ==
    /\ op = "clean_data" /\ pc = "filled"
    /\ NRows(df_clean) < NRows(df)
    /\ \E i \in 1..NRows(df_clean) :
          /\ isnull(remove_duplicates(standardize_column_names(df), None).rows[i][1])
          /\ df_clean.rows[i][1] = Int2F(2)
          /\ Median(Column(df, 1)) = Int2F(0)

\* C4: remove_outliers returns exactly the rows that detect_outliers, on the
\* same table and columns, flags in none of the checked columns, in their
\* original order.
C4_RemoveIsComplementOfDetect ==
    op = "remove_outliers" =>
        LET found == detect_outliers(df, arg, cfg.outlier_std)
            flagged == [i \in 1..NRows(df) |->
                           \E c \in Range(found.keys) : found.mask[c][i]]
        IN  /\ ret.rows = Compress(df.rows, [i \in 1..NRows(df) |-> ~flagged[i]])
            /\ NRows(df) - NRows(ret) = Cardinality({i \in 1..NRows(df) : flagged[i]})
            /\ ret.columns = df.columns

\* Two checked columns, and a row that only the first of them flags.
C4_Witness ==
    /\ op = "remove_outliers"
    /\ LET found == detect_outliers(df, arg, cfg.outlier_std)
       IN  /\ Len(found.keys) = 2
           /\ \E i \in 1..NRows(df) :
                 /\ found.mask[found.keys[1]][i]
                 /\ ~found.mask[found.keys[2]][i]
                 /\ df.rows[i] \notin Range(ret.rows)
    /\ NRows(ret) >= 1

\* C5: detect_outliers flags no row of a numeric column whose standard
\* deviation is zero or undefined, and raises nothing.
C5_NoOutlierWithoutSpread ==
    op = "detect_outliers" =>
        /\ ~ret.raised
        /\ \A c \in Range(ret.keys) :
              LET variance == Variance(Column(df, Pos(df, c)))
              IN  (variance = NaN \/ variance = Int2F(0)) =>
                      \A i \in 1..NRows(df) : ~ret.mask[c][i]

\* A checked column of several identical values.
C5_Witness ==
    /\ op = "detect_outliers"
    /\ \E c \in Range(ret.keys) :
          /\ Variance(Column(df, Pos(df, c))) = Int2F(0)
          /\ NRows(df) >= 2
          /\ \A i \in 1..NRows(df) : ~ret.mask[c][i]

(***************************************************************************)
(* The inputs of the KPI analyzer's specification: tables of two rows over *)
(* some of the columns it reads, each column with one of four contents,    *)
(* and three configurations of the thresholds.                             *)
(***************************************************************************)
KpiColumns ==
    <<ColName.handle_time, ColName.first_call_resolution, ColName.calls_offered,
      ColName.calls_answered, ColName.logged_time, ColName.productive_time,
      ColName.scheduled_time, ColName.actual_time, ColName.qa_score,
      ColName.csat_score, ColName.nps_score, ColName.compliance_pass,
      ColName.error_count, ColName.total_interactions, ColName.agent>>

KpiColumnSets ==
    {{}}
      \cup {{KpiColumns[j]} : j \in 1..Len(KpiColumns)}
      \cup { {ColName.calls_offered, ColName.calls_answered}, {ColName.logged_time, ColName.productive_time},
             {ColName.scheduled_time, ColName.actual_time}, {ColName.error_count, ColName.total_interactions},
             {ColName.handle_time, ColName.first_call_resolution}, {ColName.qa_score, ColName.csat_score},
             {ColName.calls_offered, ColName.handle_time} }
      \cup { {ColName.calls_offered, ColName.calls_answered, ColName.agent},
             {ColName.logged_time, ColName.productive_time, ColName.handle_time},
             {ColName.scheduled_time, ColName.actual_time, ColName.nps_score},
             {ColName.error_count, ColName.total_interactions, ColName.compliance_pass} }

Contents ==
    { [dtype |-> "int64", cells |-> <<Int2F(1), Int2F(3)>>],
      [dtype |-> "float64", cells |-> <<Int2F(0), NaN>>],
      [dtype |-> "int64", cells |-> <<Int2F(-3), Int2F(1)>>],
      [dtype |-> "object", cells |-> <<Str("a"), Str("a")>>] }

\* The DataFrame of the columns content maps, in the order of KpiColumns.
MakeTable(content) ==
    LET names == SelectSeq(KpiColumns, LAMBDA name : name \in DOMAIN content)
    IN  [columns |-> names,
         dtypes |-> [j \in 1..Len(names) |-> content[names[j]].dtype],
         rows |-> [i \in 1..2 |->
                      [j \in 1..Len(names) |-> content[names[j]].cells[i]]]]

KpiTables == {MakeTable(content) : content \in UNION {[C -> Contents] : C \in KpiColumnSets}}

\* The kpis argument of compare_to_targets, besides what calculate_all_kpis
\* returns for df.
KpiDicts ==
    { EmptyDict,
      (KpiName.aht :> Int2F(330)) @@ (KpiName.aht_median :> Int2F(330)) @@ (KpiName.fcr_rate :> Num(1, 2))
          @@ (KpiName.service_level :> Num(14, 15)) @@ (KpiName.occupancy_rate :> Int2F(0)),
      (KpiName.qa_score_avg :> Int2F(90)) @@ (KpiName.csat_avg :> NaN) @@ (KpiName.nps_avg :> Int2F(25))
          @@ (KpiName.error_rate :> Num(1, 10)),
      (CustomName.error_rate_trend :> Num(1, 20)) @@ (CustomName.avg_wait :> Int2F(30))
          @@ (KpiName.csat_avg :> Int2F(5)) }

ComputedDicts(t) ==
    LET all == calculate_all_kpis(t)
    IN  IF all.raised THEN {} ELSE {all.performance, all.quality}

KpiTypes == {"performance", "quality", "efficiency"}

InitKpi ==
    /\ df \in KpiTables
    /\ cfg \in {[DefaultConfig EXCEPT !.kpi_thresholds = th] :
                   th \in {DefaultThresholds, BaseNameThresholds, EmptyDict}}
    /\ op = "none"
    /\ arg = None
    /\ ret = None
    /\ pc = "idle"
    /\ df_clean = df
    /\ stages = <<>>

call_calculate_performance_kpis ==
    /\ Callable
    /\ op' = "calculate_performance_kpis"
    /\ ret' = calculate_performance_kpis(df)
    /\ UNCHANGED <<df, cfg, arg, pc, df_clean, stages>>

call_calculate_quality_kpis ==
    /\ Callable
    /\ op' = "calculate_quality_kpis"
    /\ ret' = calculate_quality_kpis(df)
    /\ UNCHANGED <<df, cfg, arg, pc, df_clean, stages>>

call_calculate_all_kpis ==
    /\ Callable
    /\ op' = "calculate_all_kpis"
    /\ ret' = calculate_all_kpis(df)
    /\ UNCHANGED <<df, cfg, arg, pc, df_clean, stages>>

call_compare_to_targets ==
    /\ Callable
    /\ \E kpis \in KpiDicts \cup ComputedDicts(df) : \E kpi_type \in KpiTypes :
          /\ op' = "compare_to_targets"
          /\ arg' = [kpis |-> kpis, kpi_type |-> kpi_type]
          /\ ret' = compare_to_targets(cfg.kpi_thresholds, kpis, kpi_type)
    /\ UNCHANGED <<df, cfg, pc, df_clean, stages>>

NextKpi ==
    \/ call_calculate_performance_kpis
    \/ call_calculate_quality_kpis
    \/ call_calculate_all_kpis
    \/ call_compare_to_targets

SpecKpi == InitKpi /\ [][NextKpi]_vars

(***************************************************************************)
(* Properties of the KPI analyzer.                                         *)
(***************************************************************************)
\* The four ratio indicators and the columns whose sums they divide.
RatioIndicators ==
    { [name |-> KpiName.service_level, num |-> ColName.calls_answered, den |-> ColName.calls_offered,
       method |-> "calculate_performance_kpis"],
      [name |-> KpiName.occupancy_rate, num |-> ColName.productive_time, den |-> ColName.logged_time,
       method |-> "calculate_performance_kpis"],
      [name |-> KpiName.adherence, num |-> ColName.actual_time, den |-> ColName.scheduled_time,
       method |-> "calculate_performance_kpis"],
      [name |-> KpiName.error_rate, num |-> ColName.error_count, den |-> ColName.total_interactions,
       method |-> "calculate_quality_kpis"] }

NumericColumn(t, name) == HasColumn(t, name) /\ is_numeric_dtype(Dtype(t, name))

ColumnSum(t, name) == FSum(Valid(Column(t, Pos(t, name))))

\* C6: a ratio indicator whose two source columns are present equals the
\* ratio of their sums when the denominator's sum is not zero, and 0, without
\* anything being raised, when it is zero.
C6_RatioUnlessZero ==
    \A r \in RatioIndicators :
        (op = r.method /\ NumericColumn(df, r.num) /\ NumericColumn(df, r.den)) =>
            /\ ~ret.raised
            /\ r.name \in DOMAIN ret.value
            /\ ret.value[r.name] =
                  (IF ColumnSum(df, r.den) # Int2F(0)
                   THEN FDiv(ColumnSum(df, r.num), ColumnSum(df, r.den))
                   ELSE Int2F(0))

\* The indicators of calculate_all_kpis and the columns each is computed from.
Indicators ==
    { [name |-> KpiName.aht, group |-> "performance", requires |-> {ColName.handle_time}],
      [name |-> KpiName.aht_median, group |-> "performance", requires |-> {ColName.handle_time}],
      [name |-> KpiName.aht_std, group |-> "performance", requires |-> {ColName.handle_time}],
      [name |-> KpiName.fcr_rate, group |-> "performance",
       requires |-> {ColName.first_call_resolution}],
      [name |-> KpiName.service_level, group |-> "performance",
       requires |-> {ColName.calls_offered, ColName.calls_answered}],
      [name |-> KpiName.occupancy_rate, group |-> "performance",
       requires |-> {ColName.logged_time, ColName.productive_time}],
      [name |-> KpiName.adherence, group |-> "performance",
       requires |-> {ColName.scheduled_time, ColName.actual_time}],
      [name |-> KpiName.qa_score_avg, group |-> "quality", requires |-> {ColName.qa_score}],
      [name |-> KpiName.qa_score_median, group |-> "quality", requires |-> {ColName.qa_score}],
      [name |-> KpiName.qa_score_std, group |-> "quality", requires |-> {ColName.qa_score}],
      [name |-> KpiName.csat_avg, group |-> "quality", requires |-> {ColName.csat_score}],
      [name |-> KpiName.csat_median, group |-> "quality", requires |-> {ColName.csat_score}],
      [name |-> KpiName.nps_avg, group |-> "quality", requires |-> {ColName.nps_score}],
      [name |-> KpiName.compliance_rate, group |-> "quality",
       requires |-> {ColName.compliance_pass}],
      [name |-> KpiName.error_rate, group |-> "quality",
       requires |-> {ColName.error_count, ColName.total_interactions}] }

\* C7: an indicator is in the result of calculate_all_kpis if and only if all
\* the columns it requires are in the table, whatever other columns are.
C7_PresentIffColumns ==
    op = "calculate_all_kpis" =>
        \A ind \in Indicators :
            (~ret.raised /\ ind.name \in DOMAIN ret[ind.group])
                <=> ind.requires \subseteq Range(df.columns)

\* C8: compare_to_targets returns an entry exactly for the indicators whose
\* resolved key is configured in the category, with the configured value as
\* its target; nothing is returned for a category that is not configured, and
\* nothing is raised.
C8_OnlyConfiguredTargets ==
    op = "compare_to_targets" =>
        LET configured == IF arg.kpi_type \in DOMAIN cfg.kpi_thresholds
                          THEN cfg.kpi_thresholds[arg.kpi_type] ELSE EmptyDict
        IN  /\ ~ret.raised
            /\ DOMAIN ret.value =
                  {name \in DOMAIN arg.kpis : TargetKey(name) \in DOMAIN configured}
            /\ \A name \in DOMAIN ret.value :
                  /\ ret.value[name].target = configured[TargetKey(name)]
                  /\ ret.value[name].actual = arg.kpis[name]
            /\ arg.kpi_type \notin DOMAIN cfg.kpi_thresholds => ret.value = EmptyDict

\* Some indicators of the input are compared and another is left out.
C8_Witness ==
    /\ op = "compare_to_targets"
    /\ ~ret.raised
    /\ KpiName.fcr_rate \in DOMAIN ret.value
    /\ ret.value[KpiName.fcr_rate].target = Num(85, 100)
    /\ KpiName.aht_median \in DOMAIN arg.kpis
    /\ KpiName.aht_median \notin DOMAIN ret.value


EndsWith(s, suffix) ==
    Len(s) >= Len(suffix) /\ SubSeq(s, Len(s) - Len(suffix) + 1, Len(s)) = suffix

\* The key of a name whose trailing '_avg' or '_rate' is taken off.
WithoutTrailingSuffix(name) ==
    IF EndsWith(name, Suffix.avg) THEN SubSeq(name, 1, Len(name) - Len(Suffix.avg))
    ELSE IF EndsWith(name, Suffix.rate) THEN SubSeq(name, 1, Len(name) - Len(Suffix.rate))
    ELSE name

\* C17: compare_to_targets resolves the threshold key of an indicator by
\* taking off a trailing '_avg' or '_rate'; a name that has them elsewhere
\* than at its end, or has none, is looked up as it is.
C17_TrailingSuffixOnly ==
    op = "compare_to_targets" /\ ~ret.raised =>
        LET configured == IF arg.kpi_type \in DOMAIN cfg.kpi_thresholds
                          THEN cfg.kpi_thresholds[arg.kpi_type] ELSE EmptyDict
        IN  /\ DOMAIN ret.value =
                  {name \in DOMAIN arg.kpis : WithoutTrailingSuffix(name) \in DOMAIN configured}
            /\ \A name \in DOMAIN ret.value :
                  ret.value[name].target = configured[WithoutTrailingSuffix(name)]

\* C18: every indicator that compare_to_targets returns has the indicator's
\* value as actual, value - target as delta, delta / target * 100 as
\* pct_delta when the target is not 0 and 0 when it is, and meets_target
\* exactly when the value is at least the target.
C18_DeltaPercentAndMeets ==
    op = "compare_to_targets" /\ ~ret.raised =>
        \A name \in DOMAIN ret.value :
            LET value == arg.kpis[name]
                entry == ret.value[name]
            IN  /\ entry.actual = value
                /\ entry.delta = FSub(value, entry.target)
                /\ entry.target # Int2F(0) =>
                       entry.pct_delta = FMul(FDiv(entry.delta, entry.target), Int2F(100))
                /\ entry.target = Int2F(0) => entry.pct_delta = Int2F(0)
                /\ entry.meets_target = FGe(value, entry.target)

\* One comparison has a value above its target, one a value below, and one
\* a value on a target of 0.
C18_Witness ==
    /\ op = "compare_to_targets"
    /\ ~ret.raised
    /\ {KpiName.aht, KpiName.fcr_rate, KpiName.occupancy_rate} \subseteq DOMAIN ret.value
    /\ ret.value[KpiName.aht].pct_delta = Int2F(10)
    /\ ret.value[KpiName.aht].meets_target
    /\ ret.value[KpiName.fcr_rate].delta = Num(-7, 20)
    /\ ~ret.value[KpiName.fcr_rate].meets_target
    /\ ret.value[KpiName.occupancy_rate].target = Int2F(0)
    /\ ret.value[KpiName.occupancy_rate].pct_delta = Int2F(0)
    /\ ret.value[KpiName.occupancy_rate].meets_target

\* C30: with the thresholds of the default configuration, compare_to_targets
\* on the indicators that calculate_all_kpis computed returns an entry for
\* aht, fcr_rate and service_level in the category 'performance' and for
\* qa_score_avg, csat_avg and nps_avg in the category 'quality', whenever
\* the indicator was computed.
C30_DefaultThresholdsCompareIndicators ==
    (/\ op = "compare_to_targets"
     /\ cfg.kpi_thresholds = DefaultThresholds
     /\ ~calculate_all_kpis(df).raised) =>
        /\ (arg.kpi_type = "performance" /\ arg.kpis = calculate_all_kpis(df).performance) =>
              \A name \in {KpiName.aht, KpiName.fcr_rate, KpiName.service_level} :
                  name \in DOMAIN arg.kpis => ~ret.raised /\ name \in DOMAIN ret.value
        /\ (arg.kpi_type = "quality" /\ arg.kpis = calculate_all_kpis(df).quality) =>
              \A name \in {KpiName.qa_score_avg, KpiName.csat_avg, KpiName.nps_avg} :
                  name \in DOMAIN arg.kpis => ~ret.raised /\ name \in DOMAIN ret.value
(***************************************************************************)
(* The inputs of the correlation analyzer's specification: tables of three *)
(* rows over up to MaxCorrColumns columns, each with one of the contents   *)
(* below, and the thresholds asked for.                                    *)
(***************************************************************************)
MaxCorrColumns == 3

CorrColumns == <<ColName.handle_time, ColName.qa_score, ColName.csat_score, ColName.nps_score>>

CorrContents ==
    { [dtype |-> "int64", cells |-> <<Int2F(0), Int2F(1), Int2F(2)>>],
      [dtype |-> "int64", cells |-> <<Int2F(1), Int2F(0), Int2F(1)>>],
      [dtype |-> "int64", cells |-> <<Int2F(0), Int2F(2), Int2F(1)>>],
      [dtype |-> "int64", cells |-> <<Int2F(1), Int2F(1), Int2F(1)>>],
      [dtype |-> "float64", cells |-> <<Int2F(0), NaN, Int2F(2)>>],
      [dtype |-> "object", cells |-> <<Str("a"), Str("a"), Str("b")>>] }

CorrTable(contents) ==
    [columns |-> SubSeq(CorrColumns, 1, Len(contents)),
     dtypes |-> [j \in 1..Len(contents) |-> contents[j].dtype],
     rows |-> [i \in 1..3 |-> [j \in 1..Len(contents) |-> contents[j].cells[i]]]]

CorrTables ==
    {CorrTable(contents) :
        contents \in UNION {[1..n -> CorrContents] : n \in 0..MaxCorrColumns}}

Thresholds ==
    {Int2F(-1), Int2F(0), Num(3, 10), Num(1, 2), Num(9, 10), Int2F(1), Num(11, 10), NaN}

ThresholdArgs == {None} \cup {Some(t) : t \in Thresholds}

InitCorr ==
    /\ df \in CorrTables
    /\ cfg = DefaultConfig
    /\ op = "none"
    /\ arg = None
    /\ ret = None
    /\ pc = "idle"
    /\ df_clean = df
    /\ stages = <<>>

call_calculate_correlation_matrix ==
    /\ Callable
    /\ op' = "calculate_correlation_matrix"
    /\ ret' = calculate_correlation_matrix(df)
    /\ UNCHANGED <<df, cfg, arg, pc, df_clean, stages>>

call_find_strong_correlations ==
    /\ Callable
    /\ \E threshold \in ThresholdArgs :
          /\ op' = "find_strong_correlations"
          /\ arg' = threshold
          /\ ret' = find_strong_correlations(cfg.correlation_threshold,
                                             calculate_correlation_matrix(df), threshold)
    /\ UNCHANGED <<df, cfg, pc, df_clean, stages>>

NextCorr ==
    \/ call_calculate_correlation_matrix
    \/ call_find_strong_correlations

SpecCorr == InitCorr /\ [][NextCorr]_vars

(***************************************************************************)
(* Properties of the correlation analyzer.                                 *)
(***************************************************************************)
\* The threshold a call of find_strong_correlations works with.
EffectiveThreshold == IF arg.some THEN arg.v ELSE cfg.correlation_threshold

\* |c| >= t for a coefficient that is defined.
MagnitudeAtLeast(c, t) ==
    t.t = "num" /\ (t.n <= 0 \/ c.sq.n * t.d * t.d >= t.n * t.n * c.sq.d)

\* C9: find_strong_correlations returns only pairs of the matrix whose
\* coefficient is defined and at least the threshold in magnitude, and a
\* higher threshold returns no pair that the lower one does not.
C9_StrongPairsOnly ==
    op = "find_strong_correlations" =>
        LET M == calculate_correlation_matrix(df)
            k == Len(M.columns)
        IN  /\ \A e \in Range(ret) :
                  /\ ~e.corr.nan
                  /\ MagnitudeAtLeast(e.corr, EffectiveThreshold)
                  /\ \E i \in 1..k : \E j \in (i + 1)..k :
                        e = [var1 |-> M.columns[i], var2 |-> M.columns[j],
                             corr |-> M.values[i][j]]
            /\ \A higher \in Thresholds :
                  FGe(higher, EffectiveThreshold) =>
                      Range(find_strong_correlations(cfg.correlation_threshold, M,
                                                     Some(higher)))
                          \subseteq Range(ret)

\* A call that returns a pair, leaves out a pair that is undefined and a pair
\* below the threshold, and would return less for a higher threshold.
C9_Witness ==
    /\ op = "find_strong_correlations"
    /\ Len(ret) >= 1
    /\ LET M == calculate_correlation_matrix(df)
           k == Len(M.columns)
       IN  /\ \E i \in 1..k : \E j \in (i + 1)..k : M.values[i][j].nan
           /\ \E i \in 1..k : \E j \in (i + 1)..k :
                 /\ ~M.values[i][j].nan
                 /\ ~MagnitudeAtLeast(M.values[i][j], EffectiveThreshold)
           /\ \E higher \in Thresholds :
                 /\ FGt(higher, EffectiveThreshold)
                 /\ Len(find_strong_correlations(cfg.correlation_threshold, M,
                                                 Some(higher))) < Len(ret)

\* C10: the correlation matrix is square over the numeric columns, symmetric,
\* and 1.0 on its diagonal, constant columns included.
C10_SquareSymmetricUnitDiagonal ==
    op = "calculate_correlation_matrix" =>
        LET k == Len(ret.columns)
        IN  /\ k = Cardinality(NumericPositions(df))
            /\ Len(ret.values) = k
            /\ \A i \in 1..k : Len(ret.values[i]) = k
            /\ \A i \in 1..k : \A j \in 1..k : ret.values[i][j] = ret.values[j][i]
            /\ \A i \in 1..k : ret.values[i][i] = Coef(1, Int2F(1))


\* The place of a returned pair in the upper triangle of the matrix, counted
\* row by row.
TrianglePlace(M, e) ==
    LET k == Len(M.columns)
        ij == CHOOSE ij \in (1..k) \X (1..k) :
                  M.columns[ij[1]] = e.var1 /\ M.columns[ij[2]] = e.var2
    IN  ij[1] * k + ij[2]

\* C19: find_strong_correlations returns at most one pair for each
\* unordered combination of two distinct columns and never a column with
\* itself; the pairs are in descending order of magnitude, and pairs of equal
\* magnitude are in the order of the upper triangle, row by row.
C19_OnePerPairByMagnitude ==
    op = "find_strong_correlations" =>
        LET M == calculate_correlation_matrix(df)
        IN  /\ \A a \in 1..Len(ret) : ret[a].var1 # ret[a].var2
            /\ \A a, b \in 1..Len(ret) :
                  a # b => {ret[a].var1, ret[a].var2} # {ret[b].var1, ret[b].var2}
            /\ \A a, b \in 1..Len(ret) :
                  a < b =>
                      /\ FGe(ret[a].corr.sq, ret[b].corr.sq)
                      /\ ret[a].corr.sq = ret[b].corr.sq =>
                             TrianglePlace(M, ret[a]) < TrianglePlace(M, ret[b])

\* Three pairs are returned: one of a larger magnitude, appended last and
\* returned first, and two of equal magnitude in the order of the triangle.
C19_Witness ==
    /\ op = "find_strong_correlations"
    /\ Len(ret) = 3
    /\ LET M == calculate_correlation_matrix(df)
       IN  /\ FGt(ret[1].corr.sq, ret[2].corr.sq)
           /\ ret[2].corr.sq = ret[3].corr.sq
           /\ TrianglePlace(M, ret[2]) < TrianglePlace(M, ret[1])
           /\ TrianglePlace(M, ret[2]) < TrianglePlace(M, ret[3])
(***************************************************************************)
(* The inputs of the regression analysis: tables of 9 rows and more with a *)
(* feature, a target and a column of text, each with or without a missing  *)
(* cell in one of the first two rows.                                      *)
(***************************************************************************)
MaxRegressionRows == 12

MissingSets == {{}, {1}, {2}}

RegressionColumn(kind, n, missing) ==
    [i \in 1..n |->
        IF i \in missing THEN NaN
        ELSE CASE kind = "feature" -> Int2F(i % 3)
               [] kind = "target" -> Int2F((i \div 2) % 2)
               [] OTHER -> Str("a")]

RegressionTables ==
    {[columns |-> <<ColName.handle_time, ColName.qa_score, ColName.agent>>,
      dtypes |-> <<"float64", "float64", "object">>,
      rows |-> [i \in 1..n |->
                   <<RegressionColumn("feature", n, mx)[i],
                     RegressionColumn("target", n, my)[i],
                     RegressionColumn("text", n, mw)[i]>>]] :
        n \in 9..MaxRegressionRows, mx \in MissingSets, my \in MissingSets,
        mw \in MissingSets}

\* The features argument; nps_score and csat_score are not columns.
FeatureArgs ==
    {<<>>, <<ColName.handle_time>>, <<ColName.handle_time, ColName.agent>>,
     <<ColName.nps_score, ColName.handle_time>>, <<ColName.agent, ColName.nps_score>>,
     <<ColName.csat_score, ColName.handle_time, ColName.handle_time>>}

InitRegression ==
    /\ df \in RegressionTables
    /\ cfg = DefaultConfig
    /\ op = "none"
    /\ arg = None
    /\ ret = None
    /\ pc = "idle"
    /\ df_clean = df
    /\ stages = <<>>

call_perform_regression_analysis ==
    /\ Callable
    /\ \E target \in {ColName.qa_score, ColName.nps_score} : \E features \in FeatureArgs :
          /\ op' = "perform_regression_analysis"
          /\ arg' = [target |-> target, features |-> features]
          /\ ret' = perform_regression_analysis(df, target, features)
    /\ UNCHANGED <<df, cfg, pc, df_clean, stages>>

NextRegression == call_perform_regression_analysis

SpecRegression == InitRegression /\ [][NextRegression]_vars

(***************************************************************************)
(* Properties of the regression analysis.                                  *)
(***************************************************************************)
\* The rows of df where both columns have a value.
RowsWithBoth(feature, target) ==
    {i \in 1..NRows(df) :
        /\ ~isnull(df.rows[i][Pos(df, feature)])
        /\ ~isnull(df.rows[i][Pos(df, target)])}

\* C20: perform_regression_analysis returns a result for a feature exactly
\* when the feature and the target are columns and at least 10 rows have a
\* value in both; a feature that is absent or has too few rows is passed over
\* without an error and without a change to the results of the others.
C20_ResultIffTenPairedRows ==
    op = "perform_regression_analysis" =>
        /\ ~ret.raised
        /\ DOMAIN ret.value =
              {f \in Range(arg.features) :
                  /\ HasColumn(df, f)
                  /\ HasColumn(df, arg.target)
                  /\ Cardinality(RowsWithBoth(f, arg.target)) >= 10}
        /\ \A f \in DOMAIN ret.value :
              ret.value[f] = perform_regression_analysis(df, arg.target, <<f>>).value[f]

(***************************************************************************)
(* The inputs of the validator's specification: the tables of the cleaner  *)
(* and dicts of ranges over their columns.                                 *)
(***************************************************************************)
\* The range_spec argument; z is not a column.
RangeSpecs ==
    { EmptyDict,
      (nAx :> <<Int2F(0), Int2F(4)>>),
      (nAx :> <<Int2F(1), Int2F(3)>>),
      (nAx :> <<Int2F(0), Int2F(4)>>) @@ (nby :> <<Int2F(1), Int2F(4)>>)
          @@ (nz :> <<Int2F(0), Int2F(0)>>),
      (nAx :> <<Int2F(5), NaN>>) @@ (nC :> <<Int2F(0), Int2F(1)>>) }

InitValidator ==
    /\ df \in CleanerTables
    /\ cfg = DefaultConfig
    /\ op = "none"
    /\ arg = None
    /\ ret = None
    /\ pc = "idle"
    /\ df_clean = df
    /\ stages = <<>>

call_validate_value_ranges ==
    /\ Callable
    /\ \E range_spec \in RangeSpecs :
          /\ op' = "validate_value_ranges"
          /\ arg' = [range_spec |-> range_spec]
          /\ ret' = validate_value_ranges(df, range_spec)
    /\ UNCHANGED <<df, cfg, pc, df_clean, stages>>

NextValidator == call_validate_value_ranges

SpecValidator == InitValidator /\ [][NextValidator]_vars

(***************************************************************************)
(* Properties of the validator.                                            *)
(***************************************************************************)
\* The rows of df whose value in the column is below low or above high.
RowsOutside(col, low, high) ==
    {i \in 1..NRows(df) :
        LET x == df.rows[i][Pos(df, col)]
        IN  /\ x.t \in {"num", "inf"}
            /\ (low.t # "nan" /\ ~FGe(x, low)) \/ (high.t # "nan" /\ ~FGe(high, x))}

\* C21: validate_value_ranges counts, for each column that has a declared
\* range and is in the table, the rows whose value is below the minimum or
\* above the maximum (a value on a bound and a missing value are not
\* counted); a column is reported exactly when its count is above 0, the
\* result is valid exactly when no column is reported, and a declared column
\* that is not in the table is passed over.
C21_CountsOutsideClosedRange ==
    op = "validate_value_ranges" /\ ~ret.raised =>
        LET declared == {col \in DOMAIN arg.range_spec : HasColumn(df, col)}
            count(col) == Cardinality(RowsOutside(col, arg.range_spec[col][1],
                                                  arg.range_spec[col][2]))
        IN  /\ DOMAIN ret.violations = {col \in declared : count(col) > 0}
            /\ \A col \in DOMAIN ret.violations : ret.violations[col] = count(col)
            /\ ret.valid <=> DOMAIN ret.violations = {}

\* One declared column has values on both bounds and none outside, and is
\* not reported; another has two rows below its minimum, and is; a third is
\* not in the table.
C21_Witness ==
    /\ op = "validate_value_ranges"
    /\ ~ret.raised
    /\ DOMAIN arg.range_spec = {nAx, nby, nz}
    /\ Int2F(0) \in Range(Column(df, 1)) /\ Int2F(4) \in Range(Column(df, 1))
    /\ DOMAIN ret.violations = {nby}
    /\ ret.violations[nby] = 2
    /\ Int2F(4) \in Range(Column(df, 2))
    /\ ~ret.valid
(***************************************************************************)
(* load_multiple_csv called on a list of paths: arg holds the files and    *)
(* the list, stages the paths that were given to load_csv, ret what the    *)
(* call returned or the error it raised, and df the table returned.        *)
(***************************************************************************)
MaxPaths == 3

Paths == {"a.csv", "b.csv", "c.csv"}

NoTable == [columns |-> <<>>, dtypes |-> <<>>, rows |-> <<>>]

FileTables ==
    { [columns |-> <<nAx>>, dtypes |-> <<"int64">>, rows |-> <<>>],
      [columns |-> <<nAx>>, dtypes |-> <<"int64">>, rows |-> << <<Int2F(0)>>, <<Int2F(4)>> >>],
      [columns |-> <<nAx, nC>>, dtypes |-> <<"float64", "object">>,
       rows |-> << <<NaN, Str("a")>> >>],
      [columns |-> <<nC, nAx>>, dtypes |-> <<"object", "int64">>,
       rows |-> << <<Str("b"), Int2F(4)>>, <<Str("a"), Int2F(0)>> >>],
      [columns |-> <<nby>>, dtypes |-> <<"int64">>, rows |-> << <<Int2F(4)>> >>] }

Files == [Paths -> {Absent, Unreadable} \cup {File(t) : t \in FileTables}]

PathLists == UNION {[1..n -> Paths] : n \in 0..MaxPaths}

InitLoader ==
    /\ df = NoTable
    /\ cfg = DefaultConfig
    /\ op = "none"
    /\ arg \in {[files |-> f, file_paths |-> <<>>] : f \in Files}
    /\ ret = None
    /\ pc = "idle"
    /\ df_clean = NoTable
    /\ stages = <<>>

call_load_multiple_csv ==
    /\ Callable
    /\ \E file_paths \in PathLists :
          LET combined == load_multiple_csv(arg.files, file_paths)
          IN  /\ op' = "load_multiple_csv"
              /\ arg' = [arg EXCEPT !.file_paths = file_paths]
              /\ ret' = [raised |-> combined.raised, error |-> combined.error,
                         value |-> combined.value]
              /\ stages' = combined.loaded
              /\ df' = IF combined.raised THEN df ELSE combined.value
    /\ UNCHANGED <<cfg, pc, df_clean>>

NextLoader == call_load_multiple_csv

SpecLoader == InitLoader /\ [][NextLoader]_vars

(***************************************************************************)
(* Properties of load_multiple_csv.                                        *)
(***************************************************************************)
Fails(path) == arg.files[path].kind # "table"

FirstFailure ==
    CHOOSE k \in 1..Len(arg.file_paths) :
        /\ Fails(arg.file_paths[k])
        /\ \A h \in 1..(k - 1) : ~Fails(arg.file_paths[h])

TableAt(k) == arg.files[arg.file_paths[k]].table

RECURSIVE RowsBefore(_)
RowsBefore(k) == IF k <= 1 THEN 0 ELSE RowsBefore(k - 1) + NRows(TableAt(k - 1))

\* The first path that fails raises its error; the paths after it are not
\* loaded and no table is returned.
FirstFailureAborts ==
    (\E k \in 1..Len(arg.file_paths) : Fails(arg.file_paths[k])) =>
        /\ ret.raised
        /\ ret.error = load_csv(arg.files, arg.file_paths[FirstFailure]).error
        /\ stages = SubSeq(arg.file_paths, 1, FirstFailure)
        /\ ret.value = <<>>
        /\ df = NoTable

\* The result holds the rows of the inputs in path order; a cell of a column
\* that an input does not have is missing in that input's rows.
IsConcatenation ==
    /\ ~ret.raised
    /\ stages = arg.file_paths
    /\ df = ret.value
    /\ NRows(df) = RowsBefore(Len(arg.file_paths) + 1)
    /\ \A k \in 1..Len(arg.file_paths) :
          /\ \A j \in 1..NCols(TableAt(k)) : HasColumn(df, TableAt(k).columns[j])
          /\ \A i \in 1..NRows(TableAt(k)) : \A j \in 1..NCols(df) :
                df.rows[RowsBefore(k) + i][j] =
                    IF HasColumn(TableAt(k), df.columns[j])
                    THEN TableAt(k).rows[i][Pos(TableAt(k), df.columns[j])]
                    ELSE NaN
    /\ \A j \in 1..NCols(df) : \E k \in 1..Len(arg.file_paths) :
          HasColumn(TableAt(k), df.columns[j])

\* C25: load_multiple_csv loads the paths in list order; the first failing
\* load raises its error, no later path is loaded and no table is returned;
\* when every load succeeds the result is the row-wise concatenation of the
\* tables in path order, with the sum of the row counts and missing cells
\* for the columns an input does not have.
C25_LoadsInOrderAndConcatenates ==
    op = "load_multiple_csv" =>
        /\ FirstFailureAborts
        /\ (\A k \in 1..Len(arg.file_paths) : ~Fails(arg.file_paths[k])) => IsConcatenation

\* The same for a list of at least one path.
C25_NonEmptyListConcatenates ==
    (op = "load_multiple_csv" /\ arg.file_paths # <<>>) =>
        /\ FirstFailureAborts
        /\ (\A k \in 1..Len(arg.file_paths) : ~Fails(arg.file_paths[k])) => IsConcatenation

\* Three tables with different columns were concatenated.
C25_ConcatenatedDifferentColumns ==
    /\ op = "load_multiple_csv"
    /\ ~ret.raised
    /\ Len(arg.file_paths) = 3
    /\ NCols(df) = 3
    /\ NRows(df) >= 4

(***************************************************************************)
(* The orchestrated runs: main() of app/cli.py and main() of app/main.py   *)
(* (the dashboard), one step of the script per action.  stages is the log  *)
(* of the stages executed, ret the run's results so far.  The tables have  *)
(* at most two numeric columns, so that the component analysis is not run. *)
(***************************************************************************)
PipelineLayouts ==
    { [columns |-> <<ColName.handle_time, ColName.qa_score>>, dtypes |-> <<"float64", "int64">>,
       cells |-> <<{Int2F(1), NaN}, {Int2F(0), Int2F(4)}>>],
      [columns |-> <<ColName.qa_score, ColName.agent>>, dtypes |-> <<"int64", "object">>,
       cells |-> <<{Int2F(0), Int2F(4)}, {Str("a"), NaN}>>],
      [columns |-> <<ColName.csat_score>>, dtypes |-> <<"object">>,
       cells |-> <<{Str("a")}>>] }

PipelineTables == UNION {TablesOf(l) : l \in PipelineLayouts}

NoResults ==
    [validation_results |-> None, kpi_results |-> None, corr_results |-> None,
     exit |-> None]

Init ==
    /\ df \in PipelineTables
    /\ cfg \in {[DefaultConfig EXCEPT !.min_data_points = m] : m \in {3, 30}}
    /\ op = "none"
    /\ arg = None
    /\ ret = None
    /\ pc = "idle"
    /\ df_clean = df
    /\ stages = <<>>

\* cli.py 70-80: load_csv and parse_dates; --no-llm is given or not.  The
\* table as load_csv returned it is kept in arg.loaded.
cli_load ==
    /\ Callable
    /\ op' = "cli_main"
    /\ \E no_llm \in BOOLEAN : arg' = [no_llm |-> no_llm, loaded |-> df]
    /\ df' = parse_dates(df, None)
    /\ df_clean' = df'
    /\ ret' = NoResults
    /\ pc' = "loaded"
    /\ UNCHANGED <<cfg, stages>>

\* cli.py 82-89: validate_all, and return 1 when the data is insufficient.
cli_validate ==
    /\ op = "cli_main" /\ pc = "loaded"
    /\ LET validation_results == validate_all(df, cfg.min_data_points)
       IN  IF ~validation_results.sufficient_data[1]
           THEN /\ ret' = [ret EXCEPT !.validation_results = validation_results,
                                      !.exit = 1]
                /\ pc' = "returned"
           ELSE /\ ret' = [ret EXCEPT !.validation_results = validation_results]
                /\ pc' = "validated"
    /\ UNCHANGED <<df, cfg, op, arg, df_clean, stages>>

\* cli.py 91-94
cli_clean ==
    /\ op = "cli_main" /\ pc = "validated"
    /\ df_clean' = clean_data(df, FALSE, cfg.outlier_std)
    /\ stages' = Append(stages, "clean_data")
    /\ pc' = "cleaned"
    /\ UNCHANGED <<df, cfg, op, arg, ret>>

\* cli.py 96-102; an exception is caught at 165-170, which returns 1.
cli_kpis ==
    /\ op = "cli_main" /\ pc = "cleaned"
    /\ stages' = Append(stages, "calculate_all_kpis")
    /\ LET kpi_results == calculate_all_kpis(df_clean)
       IN  IF kpi_results.raised
           THEN ret' = [ret EXCEPT !.exit = 1] /\ pc' = "returned"
           ELSE ret' = [ret EXCEPT !.kpi_results = kpi_results] /\ pc' = "kpis"
    /\ UNCHANGED <<df, cfg, op, arg, df_clean>>

\* cli.py 104-107
cli_correlations ==
    /\ op = "cli_main" /\ pc = "kpis"
    /\ stages' = Append(stages, "analyze_relationships")
    /\ ret' = [ret EXCEPT !.corr_results =
                   analyze_relationships(cfg.correlation_threshold, df_clean)]
    /\ pc' = "correlated"
    /\ UNCHANGED <<df, cfg, op, arg, df_clean>>

\* cli.py 109-124: the insights are generated unless --no-llm; a failure is
\* logged and the run continues.
cli_insights ==
    /\ op = "cli_main" /\ pc = "correlated"
    /\ stages' = IF arg.no_llm THEN stages
                 ELSE Append(stages, "generate_comprehensive_insights")
    /\ pc' = "insights"
    /\ UNCHANGED <<df, cfg, op, arg, ret, df_clean>>

\* cli.py 126-163: the charts and the report; what they draw and write is not
\* modelled, and the run returns 0, or 1 when one of them raises.
cli_report ==
    /\ op = "cli_main" /\ pc = "insights"
    /\ stages' = stages \o <<"generate_all_charts", "create_comprehensive_report">>
    /\ \E exit \in {0, 1} : ret' = [ret EXCEPT !.exit = exit]
    /\ pc' = "returned"
    /\ UNCHANGED <<df, cfg, op, arg, df_clean>>

\* main.py 44-69: the uploaded file is read and its quality report shown; the
\* AI insights box is ticked or not.
dashboard_upload ==
    /\ Callable
    /\ op' = "dashboard_main"
    /\ \E use_llm \in BOOLEAN : arg' = [use_llm |-> use_llm]
    /\ ret' = NoResults
    /\ pc' = "uploaded"
    /\ UNCHANGED <<df, cfg, df_clean, stages>>

\* main.py 72-77: the button "Clean & Analyze Data" is pressed.
dashboard_clean ==
    /\ op = "dashboard_main" /\ pc = "uploaded"
    /\ df_clean' = clean_data(df, FALSE, cfg.outlier_std)
    /\ stages' = Append(stages, "clean_data")
    /\ pc' = "cleaned"
    /\ UNCHANGED <<df, cfg, op, arg, ret>>

\* main.py 79-99; an exception ends the script run.
dashboard_kpis ==
    /\ op = "dashboard_main" /\ pc = "cleaned"
    /\ stages' = Append(stages, "calculate_all_kpis")
    /\ LET kpi_results == calculate_all_kpis(df_clean)
       IN  IF kpi_results.raised
           THEN ret' = ret /\ pc' = "failed"
           ELSE ret' = [ret EXCEPT !.kpi_results = kpi_results] /\ pc' = "kpis"
    /\ UNCHANGED <<df, cfg, op, arg, df_clean>>

\* main.py 101-107
dashboard_correlations ==
    /\ op = "dashboard_main" /\ pc = "kpis"
    /\ stages' = Append(stages, "calculate_correlation_matrix")
    /\ ret' = [ret EXCEPT !.corr_results =
                   [correlation_matrix |-> calculate_correlation_matrix(df_clean)]]
    /\ pc' = "correlated"
    /\ UNCHANGED <<df, cfg, op, arg, df_clean>>

\* main.py 109-124: the two charts; what they draw is not modelled.
dashboard_charts ==
    /\ op = "dashboard_main" /\ pc = "correlated"
    /\ stages' = stages \o <<"create_kpi_dashboard", "create_correlation_heatmap">>
    /\ pc' = "charted"
    /\ UNCHANGED <<df, cfg, op, arg, ret, df_clean>>

\* main.py 126-155: with the box ticked, the strong pairs are found and the
\* insights generated.
dashboard_insights ==
    /\ op = "dashboard_main" /\ pc = "charted"
    /\ IF arg.use_llm
       THEN /\ stages' = Append(stages, "generate_comprehensive_insights")
            /\ ret' = [ret EXCEPT !.corr_results =
                   [correlation_matrix |-> ret.corr_results.correlation_matrix,
                    strong_correlations |->
                        find_strong_correlations(cfg.correlation_threshold,
                            ret.corr_results.correlation_matrix, None)]]
       ELSE UNCHANGED <<stages, ret>>
    /\ pc' = "returned"
    /\ UNCHANGED <<df, cfg, op, arg, df_clean>>

Next ==
    \/ cli_load
    \/ cli_validate
    \/ cli_clean
    \/ cli_kpis
    \/ cli_correlations
    \/ cli_insights
    \/ cli_report
    \/ dashboard_upload
    \/ dashboard_clean
    \/ dashboard_kpis
    \/ dashboard_correlations
    \/ dashboard_charts
    \/ dashboard_insights

Spec == Init /\ [][Next]_vars

(***************************************************************************)
(* Properties of the orchestrated runs.                                    *)
(***************************************************************************)
\* The stages that come after the sufficiency check.
GatedStages ==
    {"clean_data", "calculate_all_kpis", "analyze_relationships",
     "calculate_correlation_matrix", "generate_comprehensive_insights",
     "generate_all_charts", "create_kpi_dashboard", "create_correlation_heatmap",
     "create_comprehensive_report"}

\* C1: in a run of the CLI or of the dashboard on a table of fewer rows than
\* min_data_points, no cleaning, KPI, correlation or report stage is executed.
C1_InsufficientDataHalts ==
    (op \in {"cli_main", "dashboard_main"} /\ NRows(df) < cfg.min_data_points)
        => Range(stages) \cap GatedStages = {}

\* What the CLI alone does: its run on such a table returns 1 from the check.
CliHaltsOnInsufficientData ==
    (op = "cli_main" /\ NRows(df) < cfg.min_data_points)
        => /\ stages = <<>>
           /\ pc \in {"loaded", "returned"}
           /\ pc = "returned" => ret.exit = 1

\* C11: validate_sufficient_data returns (False, "Insufficient data: N rows
\* (minimum: M)") exactly when the table has N < M rows, and (True,
\* "Sufficient data: N rows") otherwise, a table of exactly M rows included.
C11_SufficientIffAtLeastMinimum ==
    (op = "cli_main" /\ pc # "loaded") =>
        LET N == NRows(df)
            M == cfg.min_data_points
            result == ret.validation_results.sufficient_data
        IN  /\ N < M <=> result = <<FALSE, <<"Insufficient data: ", N,
                                             " rows (minimum: ", M, ")">>>>
            /\ N >= M <=> result = <<TRUE, <<"Sufficient data: ", N, " rows">>>>

\* A table of exactly the minimum was validated and found sufficient.
C11_Witness ==
    /\ op = "cli_main" /\ pc = "validated"
    /\ NRows(df) = cfg.min_data_points
    /\ ret.validation_results.sufficient_data[1] = TRUE


\* C27: in the command-line run, a numeric column that is loaded under a
\* name with 'time' in it reaches the KPI calculation as the numbers that
\* were loaded: handle_time is still a numeric column of the cleaned table,
\* and where the cleaning had nothing to fill or to drop, aht is the mean of
\* the loaded handle_time values.
C27_TimeMetricsKeepLoadedValues ==
    (/\ op = "cli_main"
     /\ pc = "kpis"
     /\ HasColumn(arg.loaded, ColName.handle_time)
     /\ is_numeric_dtype(Dtype(arg.loaded, ColName.handle_time))) =>
        /\ is_numeric_dtype(Dtype(df_clean, ColName.handle_time))
        /\ clean_data(arg.loaded, FALSE, cfg.outlier_std) = arg.loaded =>
              ret.kpi_results.performance[KpiName.aht] =
                  Mean(Column(arg.loaded, Pos(arg.loaded, ColName.handle_time)))
(***************************************************************************)
(* The transformations called on a table of the caller: df is the caller's *)
(* table and df_clean the table as it was before the call; arg holds the   *)
(* arguments of the call with the table as it was passed, ret what the     *)
(* call returned (or that it raised), and stages the statements that a     *)
(* call of analyze_trends or identify_kpi_drivers began.  The methods keep *)
(* nothing between calls, so a later call on the table does what a first   *)
(* call on it does; clean_data is the chain where one call is given the    *)
(* result of another.                                                      *)
(***************************************************************************)
nDate == <<"D", "a", "t", "e">>

TransformLayouts ==
    Layouts \cup
        { [columns |-> <<nAx, nby>>, dtypes |-> <<"float64", "float64">>,
           cells |-> <<{Int2F(0), NaN}, {Int2F(4), NaN}>>],
          [columns |-> <<nDate, nby>>, dtypes |-> <<"object", "float64">>,
           cells |-> <<{Str("2024-01-01"), Str("2024-01-03"), NaN},
                       {Int2F(0), Int2F(4)}>>] }

MaxTransformRows == 3

\* Tables of one column have up to MaxRows rows, the others up to
\* MaxTransformRows.
TransformTables ==
    {t \in UNION {TablesOf(l) : l \in TransformLayouts} :
        NCols(t) = 1 \/ NRows(t) <= MaxTransformRows}

\* The date_columns argument of parse_dates.
DateColumnArgs ==
    {None, Some(<<nDate>>), Some(<<nC, nz>>), Some(<<nz, nDate, ColName.logged_time>>)}

\* column, method and threshold of detect_anomalies.
AnomalyArgs ==
    {<<nAx, "zscore", 1>>, <<nAx, "iqr", 1>>, <<nby, "zscore", 3>>, <<nC, "iqr", 1>>,
     <<nz, "zscore", 3>>, <<nAx, "isolation", 3>>}

\* date_column and metric_column of analyze_trends: the date column is one
\* of texts, or is not there.
TrendArgs ==
    {<<nDate, nby>>, <<nDate, nDate>>, <<nDate, nz>>, <<nC, nAx>>, <<nC, nC>>, <<nz, nAx>>}

Strategies == {"auto", "drop", "mean", "median", "forward_fill", "interpolate"}

\* What a call hands back: the object it returned, or that it raised.
Outcome(run) ==
    IF run.id = 0 THEN [raised |-> TRUE, value |-> <<>>]
    ELSE [raised |-> FALSE, value |-> run.objects[run.id]]

InitTransform ==
    /\ df \in TransformTables
    /\ cfg = [DefaultConfig EXCEPT !.outlier_std = 1]
    /\ op = "none"
    /\ arg = None
    /\ ret = None
    /\ pc = "idle"
    /\ df_clean = df
    /\ stages = <<>>

call_standardize_column_names ==
    /\ Callable
    /\ LET run == standardize_column_names_run(<<df>>, 1)
       IN  /\ op' = "standardize_column_names"
           /\ arg' = [df |-> df]
           /\ df' = run.objects[1]
           /\ ret' = Outcome(run)
    /\ UNCHANGED <<cfg, pc, df_clean, stages>>

call_remove_duplicates ==
    /\ Callable
    /\ \E subset \in ColumnArgs :
          LET run == remove_duplicates_run(<<df>>, 1, subset)
          IN  /\ op' = "remove_duplicates"
              /\ arg' = [df |-> df, subset |-> subset]
              /\ df' = run.objects[1]
              /\ ret' = Outcome(run)
    /\ UNCHANGED <<cfg, pc, df_clean, stages>>

call_handle_missing_values ==
    /\ Callable
    /\ \E strategy \in Strategies :
          LET run == handle_missing_values_run(<<df>>, 1, strategy)
          IN  /\ op' = "handle_missing_values"
              /\ arg' = [df |-> df, strategy |-> strategy]
              /\ df' = run.objects[1]
              /\ ret' = Outcome(run)
    /\ UNCHANGED <<cfg, pc, df_clean, stages>>

call_parse_dates ==
    /\ Callable
    /\ \E date_columns \in DateColumnArgs :
          LET run == parse_dates_run(<<df>>, 1, date_columns)
          IN  /\ op' = "parse_dates"
              /\ arg' = [df |-> df, date_columns |-> date_columns]
              /\ df' = run.objects[1]
              /\ ret' = Outcome(run)
    /\ UNCHANGED <<cfg, pc, df_clean, stages>>

call_remove_outliers_of_table ==
    /\ Callable
    /\ \E columns \in ColumnArgs :
          LET run == remove_outliers_run(<<df>>, 1, columns, cfg.outlier_std)
          IN  /\ op' = "remove_outliers"
              /\ arg' = [df |-> df, columns |-> columns]
              /\ df' = run.objects[1]
              /\ ret' = Outcome(run)
    /\ UNCHANGED <<cfg, pc, df_clean, stages>>

call_clean_data ==
    /\ Callable
    /\ \E remove_outliers_flag \in BOOLEAN :
          LET run == clean_data_run(<<df>>, 1, remove_outliers_flag, cfg.outlier_std)
          IN  /\ op' = "clean_data"
              /\ arg' = [df |-> df, remove_outliers |-> remove_outliers_flag]
              /\ df' = run.objects[1]
              /\ ret' = Outcome(run)
    /\ UNCHANGED <<cfg, pc, df_clean, stages>>

call_detect_anomalies ==
    /\ Callable
    /\ \E a \in AnomalyArgs :
          LET run == detect_anomalies_run(<<df>>, 1, a[1], a[2], a[3])
          IN  /\ op' = "detect_anomalies"
              /\ arg' = [df |-> df, column |-> a[1], method |-> a[2], threshold |-> a[3]]
              /\ df' = run.objects[1]
              /\ ret' = Outcome(run)
    /\ UNCHANGED <<cfg, pc, df_clean, stages>>

call_analyze_trends ==
    /\ Callable
    /\ \E a \in TrendArgs :
          LET run == analyze_trends_run(<<df>>, 1, a[1], a[2])
          IN  /\ op' = "analyze_trends"
              /\ arg' = [df |-> df, date_column |-> a[1], metric_column |-> a[2]]
              /\ df' = run.objects[1]
              /\ ret' = [raised |-> run.id = 0, value |-> run.trend]
              /\ stages' = run.steps
    /\ UNCHANGED <<cfg, pc, df_clean>>

\* identify_kpi_drivers reads the table and returns a list.
call_identify_kpi_drivers ==
    /\ Callable
    /\ \E target_kpi \in {nAx, nC, nz} :
          LET drivers == identify_kpi_drivers(df, target_kpi, Num(3, 10))
          IN  /\ op' = "identify_kpi_drivers"
              /\ arg' = [df |-> df, target_kpi |-> target_kpi]
              /\ ret' = [raised |-> drivers.raised, value |-> drivers.value]
              /\ stages' = drivers.steps
    /\ UNCHANGED <<df, cfg, pc, df_clean>>

NextTransform ==
    \/ call_standardize_column_names
    \/ call_remove_duplicates
    \/ call_handle_missing_values
    \/ call_parse_dates
    \/ call_remove_outliers_of_table
    \/ call_clean_data
    \/ call_detect_anomalies
    \/ call_analyze_trends
    \/ call_identify_kpi_drivers

SpecTransform == InitTransform /\ [][NextTransform]_vars

(***************************************************************************)
(* Properties of the transformations.                                      *)
(***************************************************************************)
\* The positions remove_duplicates compares in the call of arg.
ComparedPositions ==
    IF arg.subset.some
    THEN {j \in 1..NCols(arg.df) : arg.df.columns[j] \in Range(arg.subset.v)}
    ELSE 1..NCols(arg.df)

\* C12: remove_duplicates keeps, of the rows equal on the compared columns,
\* exactly the first; the rows kept are rows of the input in their order.
C12_FirstOccurrencesInOrder ==
    (op = "remove_duplicates" /\ ~ret.raised) =>
        LET rows == arg.df.rows
            out == ret.value.rows
            key(row) == [j \in ComparedPositions |-> row[j]]
            first(i) == \A h \in 1..(i - 1) : key(rows[h]) # key(rows[i])
        IN  /\ \A i \in 1..Len(rows) : first(i) =>
                  Cardinality({m \in 1..Len(out) : key(out[m]) = key(rows[i])}) = 1
            /\ \A m \in 1..Len(out) :
                  \E i \in 1..Len(rows) : first(i) /\ out[m] = rows[i]
            /\ \A m, n \in 1..Len(out) : m < n =>
                  \E i, h \in 1..Len(rows) :
                      /\ i < h /\ first(i) /\ first(h)
                      /\ out[m] = rows[i] /\ out[n] = rows[h]
            /\ ret.value.columns = arg.df.columns

\* A subset of one column of two: a later row, equal to the first on that
\* column and different on the other, is dropped, and two rows are kept.
C12_Witness ==
    /\ op = "remove_duplicates" /\ ~ret.raised
    /\ arg.subset.some /\ NCols(arg.df) = 2 /\ Cardinality(ComparedPositions) = 1
    /\ Len(ret.value.rows) = 2
    /\ \E i, h \in 1..NRows(arg.df) :
          /\ i < h
          /\ arg.df.rows[i] # arg.df.rows[h]
          /\ arg.df.rows[i] \in Range(ret.value.rows)
          /\ arg.df.rows[h] \notin Range(ret.value.rows)

\* The cells of column j of table t that are missing.
MissingRows(t, j) == {i \in 1..NRows(t) : isnull(t.rows[i][j])}

\* C14: handle_missing_values('auto') writes, into every missing cell of a
\* numeric column, the median of the column's non-missing values (which is
\* nan when it has none), and "Unknown" into every missing cell of an object
\* column; the number of rows is unchanged.
C14_AutoFillsMedianAndUnknown ==
    (op = "handle_missing_values" /\ arg.strategy = "auto") =>
        LET t == arg.df
            out == ret.value
        IN  /\ ~ret.raised
            /\ NRows(out) = NRows(t)
            /\ \A j \in NumericPositions(t) : \A i \in MissingRows(t, j) :
                  out.rows[i][j] = Median(Valid(Column(t, j)))
            /\ \A j \in ObjectPositions(t) : \A i \in MissingRows(t, j) :
                  out.rows[i][j] = Str("Unknown")

\* A missing number was replaced by the median 0 of its column and a missing
\* text by "Unknown".
C14_Witness ==
    /\ op = "handle_missing_values" /\ arg.strategy = "auto" /\ ~ret.raised
    /\ \E i \in 1..NRows(arg.df) :
          /\ arg.df.dtypes = <<"float64", "object">>
          /\ isnull(arg.df.rows[i][1])
          /\ ret.value.rows[i][1] = Int2F(0)
    /\ \E i \in 1..NRows(arg.df) :
          /\ isnull(arg.df.rows[i][2])
          /\ ret.value.rows[i][2] = Str("Unknown")

\* The table of the single column j of t.
OnlyColumn(t, j) ==
    [columns |-> <<t.columns[j]>>, dtypes |-> <<t.dtypes[j]>>,
     rows |-> [i \in 1..NRows(t) |-> <<t.rows[i][j]>>]]

FillStrategies == {"mean", "median", "forward_fill", "auto"}

\* C15: a fill strategy keeps every cell that was not missing, leaves a
\* column without missing cells as it was, fills a column as it would fill
\* it were the column alone in the table, and, for mean and median, leaves
\* the missing cells of the columns that are not numeric missing.
C15_FillIsPerColumn ==
    (op = "handle_missing_values" /\ arg.strategy \in FillStrategies) =>
        LET t == arg.df
            out == ret.value
        IN  /\ ~ret.raised
            /\ NRows(out) = NRows(t) /\ out.columns = t.columns
            /\ \A j \in 1..NCols(t) :
                  /\ \A i \in (1..NRows(t)) \ MissingRows(t, j) :
                        out.rows[i][j] = t.rows[i][j]
                  /\ MissingRows(t, j) = {} => Column(out, j) = Column(t, j)
                  /\ Column(out, j) =
                         Column(handle_missing_values(OnlyColumn(t, j), arg.strategy), 1)
                  /\ (arg.strategy \in {"mean", "median"} /\ j \notin NumericPositions(t))
                         => \A i \in MissingRows(t, j) : isnull(out.rows[i][j])

\* Two numeric columns with missing cells were filled, each with its own
\* value, and a cell that was not missing kept its value.
C15_Witness ==
    /\ op = "handle_missing_values" /\ arg.strategy = "mean" /\ ~ret.raised
    /\ arg.df.dtypes = <<"float64", "float64">>
    /\ \E i, h \in 1..NRows(arg.df) :
          /\ isnull(arg.df.rows[i][1]) /\ ret.value.rows[i][1] = Int2F(0)
          /\ isnull(arg.df.rows[h][2]) /\ ret.value.rows[h][2] = Int2F(4)
          /\ ~isnull(arg.df.rows[i][2]) /\ ret.value.rows[i][2] = arg.df.rows[i][2]

\* C16: handle_missing_values('forward_fill') sets a missing cell to the
\* nearest non-missing cell above it in its column, leaves it missing when
\* there is none, and keeps the rows and their order.
C16_ForwardFillFromAbove ==
    (op = "handle_missing_values" /\ arg.strategy = "forward_fill") =>
        LET t == arg.df
            out == ret.value
            above(i, j) == {h \in 1..(i - 1) : ~isnull(t.rows[h][j])}
            nearest(i, j) == CHOOSE h \in above(i, j) : \A g \in above(i, j) : g <= h
        IN  /\ ~ret.raised
            /\ NRows(out) = NRows(t)
            /\ \A i \in 1..NRows(t) : \A j \in 1..NCols(t) :
                  out.rows[i][j] =
                      IF ~isnull(t.rows[i][j]) THEN t.rows[i][j]
                      ELSE IF above(i, j) = {} THEN NaN
                      ELSE t.rows[nearest(i, j)][j]

\* A missing cell below two values takes the nearest above, not the first.
C16_Witness ==
    /\ op = "handle_missing_values" /\ arg.strategy = "forward_fill" /\ ~ret.raised
    /\ NRows(arg.df) = 3
    /\ arg.df.rows[1][1] = Int2F(0) /\ arg.df.rows[2][1] = Int2F(4)
    /\ isnull(arg.df.rows[3][1]) /\ ret.value.rows[3][1] = Int2F(4)
    /\ NRows(ret.value) = 3


\* C13: no transformation changes the table it is given: after a call of
\* parse_dates, standardize_column_names, remove_duplicates,
\* handle_missing_values, remove_outliers, clean_data, detect_anomalies or
\* analyze_trends, returned or raised, the caller's table has the column
\* names, the rows and the cell values it had before, so that it has them
\* after any sequence of calls.
C13_InputTableUnchanged ==
    /\ df.columns = df_clean.columns
    /\ df.rows = df_clean.rows

\* A call has written into its copy, names and cells, and handed back a
\* table that differs from the caller's in both.
C13_Witness ==
    /\ op = "clean_data"
    /\ ~ret.raised
    /\ ret.value.columns # df.columns
    /\ ret.value.rows # df.rows
    /\ NRows(ret.value) = NRows(df)
    /\ df = df_clean

\* Whether the value of row i of a column is anomalous by the method: its
\* z-score among the values of the column is beyond the threshold, or it is
\* outside the quartiles by more than threshold times their distance.
OwnValueExceeds(col, i, method, threshold) ==
    IF isnull(col[i]) THEN FALSE
    ELSE IF method = "iqr" THEN IqrFlags(col, threshold)[i]
    ELSE LET v == Valid(col)
         IN  ExceedsStd(ZScoreSq(col[i], Mean(v),
                                 FDiv(FSum([k \in 1..Len(v) |->
                                               FMul(FSub(v[k], Mean(v)), FSub(v[k], Mean(v)))]),
                                      Int2F(Len(v)))),
                        threshold)

\* C22: detect_anomalies, by 'zscore' or by 'iqr', on a numeric column with
\* or without missing values, returns the rows of the table in their order
\* with the columns as they were and one more, is_anomaly, which is True for
\* a row exactly when the row's own value exceeds the threshold.
C22_FlagsOwnValue ==
    (/\ op = "detect_anomalies"
     /\ arg.method \in {"zscore", "iqr"}
     /\ HasColumn(arg.df, arg.column)
     /\ is_numeric_dtype(Dtype(arg.df, arg.column))) =>
        /\ ~ret.raised
        /\ ret.value.columns = Append(arg.df.columns, is_anomaly)
        /\ NRows(ret.value) = NRows(arg.df)
        /\ \A i \in 1..NRows(arg.df) :
              /\ SubSeq(ret.value.rows[i], 1, NCols(arg.df)) = arg.df.rows[i]
              /\ ret.value.rows[i][NCols(arg.df) + 1] =
                    Bool(OwnValueExceeds(Column(arg.df, Pos(arg.df, arg.column)), i,
                                         arg.method, arg.threshold))

\* The day of the date in row i of the date column of the call.
DayOfRow(i) == strptime(arg.df.rows[i][Pos(arg.df, arg.date_column)].s).v

\* The metric of the rows of a day, in row order.
MetricOfDay(day) ==
    LET rows == SelectSeq([i \in 1..NRows(arg.df) |-> i], LAMBDA i : DayOfRow(i) = day)
    IN  [k \in 1..Len(rows) |-> arg.df.rows[rows[k]][Pos(arg.df, arg.metric_column)]]

\* C23: analyze_trends returns one row for each calendar period, from the
\* first date of the table to the last, with the mean, the median, the std
\* and the count of the metric in the period, and a rolling_avg_7 that is the
\* mean of the means of the 7 periods ending at the period, undefined for
\* the first six.
C23_PerPeriodAndRollingOverPeriods ==
    (/\ op = "analyze_trends"
     /\ HasColumn(arg.df, arg.date_column)
     /\ HasColumn(arg.df, arg.metric_column)
     /\ is_numeric_dtype(Dtype(arg.df, arg.metric_column))
     /\ NRows(arg.df) > 0
     /\ \A i \in 1..NRows(arg.df) :
           LET cell == arg.df.rows[i][Pos(arg.df, arg.date_column)]
           IN  cell.t = "str" /\ strptime(cell.s).some) =>
        LET days == {DayOfRow(i) : i \in 1..NRows(arg.df)}
            first == CHOOSE a \in days : \A b \in days : a <= b
            last == CHOOSE a \in days : \A b \in days : b <= a
            means == [p \in 1..(last - first + 1) |-> Mean(MetricOfDay(first + p - 1))]
        IN  /\ ~ret.raised
            /\ Len(ret.value) = last - first + 1
            /\ \A p \in 1..Len(ret.value) :
                  /\ ret.value[p].period = Timestamp(first + p - 1)
                  /\ ret.value[p].mean = means[p]
                  /\ ret.value[p].median = Median(MetricOfDay(first + p - 1))
                  /\ ret.value[p].std = Std(Variance(MetricOfDay(first + p - 1)))
                  /\ ret.value[p].count = Len(Valid(MetricOfDay(first + p - 1)))
                  /\ ret.value[p].rolling_avg_7 = RollingMean(means, 7)[p]

\* C24: analyze_trends raises when the date column or the metric column is
\* not in the table, and identify_kpi_drivers when the target column is not;
\* the error comes before any statement of the computation, and nothing is
\* returned.
C24_AbsentColumnRaisesFirst ==
    /\ (/\ op = "analyze_trends"
        /\ ~HasColumn(arg.df, arg.date_column) \/ ~HasColumn(arg.df, arg.metric_column)) =>
           ret.raised /\ ret.value = <<>> /\ stages = <<>>
    /\ (op = "identify_kpi_drivers" /\ ~HasColumn(arg.df, arg.target_kpi)) =>
           ret.raised /\ ret.value = <<>> /\ stages = <<>>

\* analyze_trends was called with a date column that is there and a metric
\* column that is not, on a table with rows.
C24_Witness ==
    /\ op = "analyze_trends"
    /\ HasColumn(arg.df, arg.date_column)
    /\ ~HasColumn(arg.df, arg.metric_column)
    /\ NRows(arg.df) > 0
    /\ ret.raised
    /\ stages = <<>>

\* C28: the table returned by clean_data has no two identical rows, and
\* clean_data without the removal of outliers, applied to a table it
\* returned, returns the same rows.
C28_CleanedRowsDistinctAndStable ==
    (op = "clean_data" /\ ~ret.raised) =>
        /\ \A i, h \in 1..NRows(ret.value) : ret.value.rows[i] = ret.value.rows[h] => i = h
        /\ clean_data(ret.value, FALSE, cfg.outlier_std).rows = ret.value.rows

\* C29: after handle_missing_values with the strategy 'auto', and after
\* clean_data, no cell of a numeric column or of a text column is missing,
\* whatever the table, a numeric column with no value at all included.
C29_AutoLeavesNothingMissing ==
    (/\ \/ op = "handle_missing_values" /\ arg.strategy = "auto"
        \/ op = "clean_data"
     /\ ~ret.raised) =>
        \A j \in NumericPositions(ret.value) \cup ObjectPositions(ret.value) :
            \A i \in 1..NRows(ret.value) : ~isnull(ret.value.rows[i][j])
(***************************************************************************)
(* parse_dates called on tables with date texts, with texts that are not   *)
(* dates, with a numeric column named as a time, and with two columns of   *)
(* one name.                                                               *)
(***************************************************************************)
DateLayouts ==
    { [columns |-> <<nDate, ColName.handle_time>>, dtypes |-> <<"object", "float64">>,
       cells |-> <<{Str("2024-01-01"), Str("a"), NaN}, {Int2F(4), NaN}>>],
      [columns |-> <<nDate, nDate, ColName.logged_time>>,
       dtypes |-> <<"object", "object", "object">>,
       cells |-> <<{Str("2024-01-03"), Str("a")}, {Str("a")},
                   {Str("2024-01-01"), Str("a")}>>],
      [columns |-> <<nC, nDate>>, dtypes |-> <<"object", "object">>,
       cells |-> <<{Str("a"), Str("2024-01-01")},
                   {Str("2024-01-01"), Str("2024-01-03"), Str("b")}>>] }

DateTables ==
    {t \in UNION {TablesOf(l) : l \in DateLayouts} : NRows(t) <= MaxTransformRows}

InitParseDates ==
    /\ df \in DateTables
    /\ cfg = DefaultConfig
    /\ op = "none"
    /\ arg = None
    /\ ret = None
    /\ pc = "idle"
    /\ df_clean = df
    /\ stages = <<>>

NextParseDates == call_parse_dates

SpecParseDates == InitParseDates /\ [][NextParseDates]_vars

(***************************************************************************)
(* Properties of parse_dates.                                              *)
(***************************************************************************)
\* The column is one that the call attempts: listed, or, with no list, named
\* as a date or a time.
Attempted(j) ==
    IF arg.date_columns.some
    THEN \E k \in 1..Len(arg.date_columns.v) : arg.date_columns.v[k] = arg.df.columns[j]
    ELSE Contains(LowerName(arg.df.columns[j]), date_word)
            \/ Contains(LowerName(arg.df.columns[j]), time_word)

\* pd.to_datetime raises on the column: its name is the name of two columns.
ColumnFails(j) ==
    \E h \in 1..NCols(arg.df) : h # j /\ arg.df.columns[h] = arg.df.columns[j]

IsDateText(x) == x.t = "str" /\ x.s \in {"2024-01-01", "2024-01-03"}

=============================================================================
